---- MODULE Spec2Model ----
(***************************************************************************)
(* clog: incremental transcript harvesting and offset-tracked ingestion.   *)
(*                                                                         *)
(* A transcript is an append-only file of newline-delimited records.       *)
(* It is modelled as the sequence of its lines plus the number of bytes    *)
(* of the last line that are not written yet (`missing`, 0 when the file   *)
(* ends with a newline).  Byte offsets are computed from the lengths of    *)
(* the lines, so an offset may point into the middle of a line.            *)
(*                                                                         *)
(* json.Unmarshal is a library function: a token parses to the record of   *)
(* its line exactly when it covers the whole content of a line that holds  *)
(* a JSON object; a proper fragment of a line never parses.  bufio's       *)
(* carriage-return stripping is not modelled.                              *)
(***************************************************************************)
EXTENDS Integers, Sequences, FiniteSets, TLC

\* ------------------------------------------------------------------ bounds

\* lines of a transcript in the ingest system
MaxLines == 2
\* lines of the file a Harvest call of the function-level checks starts with
MaxInitLines == 2
\* lines appended between the two Harvest calls of the function-level checks
MaxAppend == 2
\* rows of the events table
MaxEvents == 3

\* ------------------------------------------------------- program constants

\* scanner.Buffer(make([]byte, 0, 1024*1024), 10*1024*1024)
MaxTokenSize == 10 * 1024 * 1024

Procs == {1, 2}

Path == "/t.jsonl"

SessionOf(p) == IF p = 1 THEN "sess-1" ELSE "sess-2"

\* ------------------------------------------------------------ transcript

\* One line of a transcript: json says whether the content is a JSON object,
\* hasMsg whether it has a "message" payload, len is the length of the
\* content in bytes (the newline excluded).
Line(json, type, uuid, hasMsg, role, text, len) ==
  [json |-> json, type |-> type, uuid |-> uuid, hasMsg |-> hasMsg,
   role |-> role, text |-> text, len |-> len]

UserLine == Line(TRUE, "message", "u1", TRUE, "user", "first", 3)
AsstLine == Line(TRUE, "message", "u2", TRUE, "assistant", "answer", 4)
NoUuidLine == Line(TRUE, "message", "", TRUE, "user", "anon", 2)
SummaryMsgLine == Line(TRUE, "summary", "u3", TRUE, "user", "recap", 3)
SummaryLine == Line(TRUE, "summary", "", FALSE, "", "", 2)
SystemLine == Line(TRUE, "message", "s1", TRUE, "system", "rules", 3)
GarbageLine == Line(FALSE, "", "", FALSE, "", "", 2)
EmptyLine == Line(FALSE, "", "", FALSE, "", "", 0)
\* the shortest line the scanner rejects: with its newline it does not fit
\* the buffer
HugeLine == Line(TRUE, "message", "u5", TRUE, "user", "huge", MaxTokenSize)

\* a record without payload of that size
HugeSnapshotLine ==
  Line(TRUE, "file-history-snapshot", "", FALSE, "", "", MaxTokenSize)

LineKinds ==
  {UserLine, AsstLine, NoUuidLine, SummaryMsgLine, SummaryLine, SystemLine,
   GarbageLine, EmptyLine, HugeLine, HugeSnapshotLine}

\* the lines the writer of the ingest system appends
IngestKinds == {UserLine, AsstLine, NoUuidLine, SummaryLine, HugeLine}

\* the lines the writer appends between two Harvest calls
AppendKinds == {UserLine, AsstLine, SummaryLine, HugeLine}

\* bytes missing from the last line: none, its newline, part of its content
MissingKinds == {0, 1, 2}

Max(a, b) == IF a >= b THEN a ELSE b

RECURSIVE LineStart(_, _)
\* byte offset of the first byte of line i (i = Len + 1: the end of the
\* file when every line is terminated)
LineStart(lines, i) ==
  IF i <= 1 THEN 0 ELSE LineStart(lines, i - 1) + lines[i - 1].len + 1

\* the size of the file in bytes
FileSize(f) == LineStart(f.lines, Len(f.lines) + 1) - f.missing

EmptyFile == [lines |-> <<>>, missing |-> 0]

\* os.O_APPEND of one complete line, newline included
AppendTo(f, l) == [lines |-> Append(f.lines, l), missing |-> 0]

\* ------------------------------------------------------- bufio.Scanner

\* The token bufio.ScanLines cuts from line i when reading starts at byte
\* pos: the bytes [lo, hi) of the content of the line.  A terminated line
\* gives a token when its newline is at or after pos; the unterminated last
\* line gives a token at end of file when at least one byte of it is read.
Token(f, i, pos) ==
  LET l == f.lines[i]
      start == LineStart(f.lines, i)
      last == i = Len(f.lines)
      term == ~last \/ f.missing = 0
      hi == IF term THEN l.len ELSE l.len + 1 - f.missing
      lo == Max(pos, start) - start
  IN [line |-> i, lo |-> lo, hi |-> hi, term |-> term,
      some |-> IF term THEN start + l.len >= pos ELSE start + hi > Max(pos, start)]

RECURSIVE TokensFrom(_, _, _)
TokensFrom(f, i, pos) ==
  IF i > Len(f.lines) THEN <<>>
  ELSE LET t == Token(f, i, pos)
       IN (IF t.some THEN <<t>> ELSE <<>>) \o TokensFrom(f, i + 1, pos)

\* the tokens scanner.Scan() yields, in order, reading from byte pos
Tokens(f, pos) == TokensFrom(f, 1, pos)

\* bufio.ErrTooLong: the buffer is full (maxTokenSize bytes) and holds no
\* newline
TooLong(t) == t.hi - t.lo >= MaxTokenSize

\* index of the first token that is too long, 0 when there is none
RECURSIVE FirstTooLong(_, _)
FirstTooLong(toks, k) ==
  IF k > Len(toks) THEN 0
  ELSE IF TooLong(toks[k]) THEN k ELSE FirstTooLong(toks, k + 1)

\* ------------------------------------------------------------- Harvest

\* json.Unmarshal(line, &tl)
Unmarshal(f, t) ==
  LET l == f.lines[t.line]
  IN IF l.json /\ t.lo = 0 /\ t.hi = l.len
     THEN [ok |-> TRUE, Type |-> l.type, UUID |-> l.uuid,
           HasMessage |-> l.hasMsg, Role |-> l.role, Text |-> l.text]
     ELSE [ok |-> FALSE, Type |-> "", UUID |-> "", HasMessage |-> FALSE,
           Role |-> "", Text |-> ""]

\* the scan loop with the role test  role != "user"
RetainedUserOnly(f, t) ==
  LET l == f.lines[t.line]
  IN /\ t.hi - t.lo # 0
     /\ l.json /\ t.lo = 0 /\ t.hi = l.len
     /\ l.hasMsg
     /\ l.role = "user"

\* the filter of the scan loop: the token becomes a message
Retained(f, t) ==
  LET tl == Unmarshal(f, t)
  IN /\ t.hi - t.lo # 0
     /\ tl.ok
     /\ tl.HasMessage
     /\ tl.Role \in {"user", "assistant"}

Message(sessionID, f, t) ==
  LET tl == Unmarshal(f, t)
  IN [SessionID |-> sessionID, UUID |-> tl.UUID, Role |-> tl.Role,
      Content |-> tl.Text]

RECURSIVE ScanMessagesPrepending(_, _, _, _)
\* the scan loop putting each message in front of the ones before
ScanMessagesPrepending(sessionID, f, toks, k) ==
  IF k > Len(toks) THEN <<>>
  ELSE ScanMessagesPrepending(sessionID, f, toks, k + 1)
       \o (IF Retained(f, toks[k]) THEN <<Message(sessionID, f, toks[k])>> ELSE <<>>)

RECURSIVE ScanMessages(_, _, _, _)
ScanMessages(sessionID, f, toks, k) ==
  IF k > Len(toks) THEN <<>>
  ELSE (IF Retained(f, toks[k]) THEN <<Message(sessionID, f, toks[k])>> ELSE <<>>)
       \o ScanMessages(sessionID, f, toks, k + 1)

NoResult == [err |-> TRUE, Messages |-> <<>>, NewOffset |-> 0]

\* Harvest without the f.Seek(fromOffset, io.SeekStart)
HarvestNoSeek(sessionID, f, canOpen, fromOffset) ==
  LET toks == Tokens(f, 0)
  IN IF ~canOpen THEN NoResult
     ELSE IF FirstTooLong(toks, 1) # 0 THEN NoResult
     ELSE [err |-> FALSE,
           Messages |-> ScanMessages(sessionID, f, toks, 1),
           NewOffset |-> FileSize(f)]

RECURSIVE FitTokens(_, _)
FitTokens(toks, k) ==
  IF k > Len(toks) THEN <<>>
  ELSE (IF TooLong(toks[k]) THEN <<>> ELSE <<toks[k]>>) \o FitTokens(toks, k + 1)

\* Harvest without the test of scanner.Err()
HarvestIgnoringScanErr(sessionID, f, canOpen, fromOffset) ==
  LET pos == IF fromOffset > 0 THEN fromOffset ELSE 0
      toks == FitTokens(Tokens(f, pos), 1)
  IN IF ~canOpen THEN NoResult
     ELSE [err |-> FALSE,
           Messages |-> ScanMessages(sessionID, f, toks, 1),
           NewOffset |-> Max(pos, FileSize(f))]

\* Harvest returning what the scan read before it stopped at a line that
\* is too long, as a scan that reached the end of the file
HarvestStoppingAtTooLong(sessionID, f, canOpen, fromOffset) ==
  LET pos == IF fromOffset > 0 THEN fromOffset ELSE 0
      toks == Tokens(f, pos)
      k == FirstTooLong(toks, 1)
      read == IF k = 0 THEN toks ELSE SubSeq(toks, 1, k - 1)
  IN IF ~canOpen THEN NoResult
     ELSE [err |-> FALSE,
           Messages |-> ScanMessages(sessionID, f, read, 1),
           NewOffset |-> Max(pos, FileSize(f))]

\* Harvest reporting a new offset only when it found turns
HarvestOffsetOnlyWithTurns(sessionID, f, canOpen, fromOffset) ==
  LET pos == IF fromOffset > 0 THEN fromOffset ELSE 0
      toks == Tokens(f, pos)
      msgs == ScanMessages(sessionID, f, toks, 1)
  IN IF ~canOpen THEN NoResult
     ELSE IF FirstTooLong(toks, 1) # 0 THEN NoResult
     ELSE [err |-> FALSE,
           Messages |-> msgs,
           NewOffset |-> IF msgs = <<>> THEN pos ELSE Max(pos, FileSize(f))]

RECURSIVE AnyUnparsed(_, _, _)
\* some token of the scan is not empty and does not parse
AnyUnparsed(f, toks, k) ==
  IF k > Len(toks) THEN FALSE
  ELSE (toks[k].hi - toks[k].lo # 0 /\ ~Unmarshal(f, toks[k]).ok)
         \/ AnyUnparsed(f, toks, k + 1)

\* Harvest returning the error of json.Unmarshal instead of skipping the
\* line
HarvestFailingOnUnparsed(sessionID, f, canOpen, fromOffset) ==
  LET pos == IF fromOffset > 0 THEN fromOffset ELSE 0
      toks == Tokens(f, pos)
  IN IF ~canOpen THEN NoResult
     ELSE IF FirstTooLong(toks, 1) # 0 THEN NoResult
     ELSE IF AnyUnparsed(f, toks, 1) THEN NoResult
     ELSE [err |-> FALSE,
           Messages |-> ScanMessages(sessionID, f, toks, 1),
           NewOffset |-> Max(pos, FileSize(f))]

\* Harvest reporting the number of bytes it read instead of the position
\* in the file
HarvestCountingBytesRead(sessionID, f, canOpen, fromOffset) ==
  LET pos == IF fromOffset > 0 THEN fromOffset ELSE 0
      toks == Tokens(f, pos)
  IN IF ~canOpen THEN NoResult
     ELSE IF FirstTooLong(toks, 1) # 0 THEN NoResult
     ELSE [err |-> FALSE,
           Messages |-> ScanMessages(sessionID, f, toks, 1),
           NewOffset |-> Max(pos, FileSize(f)) - pos]

\* Harvest(sessionID, transcriptPath, fromOffset); canOpen is the outcome
\* of os.Open.  err stands for the (nil, error) return.
Harvest(sessionID, f, canOpen, fromOffset) ==
  LET pos == IF fromOffset > 0 THEN fromOffset ELSE 0
      toks == Tokens(f, pos)
  IN IF ~canOpen THEN NoResult
     ELSE IF FirstTooLong(toks, 1) # 0 THEN NoResult
     ELSE [err |-> FALSE,
           Messages |-> ScanMessages(sessionID, f, toks, 1),
           NewOffset |-> Max(pos, FileSize(f))]

\* ---------------------------------------------------------------- state

VARIABLES
  \* the ingest system
  transcript,   \* the transcript file at Path
  offsets,      \* table transcript_offsets: transcript_path -> last_offset
  messages,     \* table messages, in insertion order
  pc,           \* where each ingest invocation stands
  off,          \* harvestMessages: offset
  res,          \* harvestMessages: result
  tx,           \* the open transaction of SaveHarvestedMessages
  last,         \* the invocation whose commit succeeded last (0: none yet)
  parsed,       \* runHook: the parsed hook payload
  herr,         \* the error runHook returns ("": nil)
  exit,         \* the exit status of the process and what it wrote to stderr
  \* two Harvest calls on one file (function-level checks)
  hfile1,       \* the file at the first call
  hfile,        \* the file now
  hopen,        \* whether os.Open succeeds
  hfrom,        \* fromOffset of the first call
  hres1,        \* result of the first call
  hres2,        \* result of the second call, from hres1.NewOffset
  hphase,
  \* calls of the store (store-level checks)
  call,         \* the last call of the store and what it returned
  saved,        \* per path, the newOffset of the last successful save (-1: none)
  \* one run of embed mode
  etable,       \* the ids of the messages with content, in id order
  elimit,       \* runEmbed: limit
  todo,         \* runEmbed: messages
  ei,           \* runEmbed: i, the start of the batch
  eres,         \* runEmbed: embeddings, err of emb.Embed(texts)
  ej,           \* runEmbed: j, the index in the batch
  embedded,     \* table message_embeddings: the ids that have an embedding
  epc,          \* where the run stands
  \* the database paths of two working directories
  cwd1,
  cwd2,
  db1,          \* DBPath(cwd1)
  db2,          \* DBPath(cwd2)
  cphase,
  \* one call of extractText
  xraw,         \* extractText: raw, the content of the payload
  xtext,        \* what extractText returned
  xpc,
  \* one Harvest call on a file of records with timestamps
  sfile,        \* the file; stamps[i] is the "timestamp" of line i
  sclock,       \* time.Now() when the call starts
  sres,         \* the result, each message with its Timestamp
  spc,
  \* one call of parseTimeArg
  darg,         \* parseTimeArg: s, as a sequence of characters
  dres,         \* what parseRelativeDuration and parseTimeArg returned
  dpc,
  \* the tables runHook writes before it harvests
  sessions,     \* table sessions: a set of rows
  events,       \* table events, in insertion order
  \* calls of UpsertSession (store-level checks)
  uhist,        \* the sessions of the successful calls, in order
  uerr,         \* whether the last call returned an error
  \* runs of embed mode on one database
  mtable,       \* table messages: the content of the message of each id
  embeddings,   \* table message_embeddings: a set of rows
  runs          \* runEmbed: the locals of each run and where it stands

ivars == <<transcript, offsets, messages, pc, off, res, tx, last,
          parsed, herr, exit>>

\* what only runHook and main change
hookvars == <<parsed, herr, exit>>

hvars == <<hfile1, hfile, hopen, hfrom, hres1, hres2, hphase>>

svars == <<call, saved>>

evars == <<etable, elimit, todo, ei, eres, ej, embedded, epc>>

cvars == <<cwd1, cwd2, db1, db2, cphase>>

\* the tables of runHook
tvars == <<sessions, events>>

uvars == <<uhist, uerr>>

rvars == <<mtable, embeddings, runs>>

xvars == <<xraw, xtext, xpc>>

tsvars == <<sfile, sclock, sres, spc>>

dvars == <<darg, dres, dpc>>

\* the variables of the calls of single functions
fvars == <<xvars, tsvars, dvars>>

\* what the actions of runHook leave alone
notHook == <<hvars, svars, evars, cvars, fvars, uvars, rvars>>

\* what the actions of harvestMessages leave alone
notIngest == <<notHook, tvars>>

\* what the two Harvest calls leave alone
notHarvest == <<ivars, svars, evars, cvars, fvars, tvars, uvars, rvars>>

\* what the calls of the store leave alone, the ingest invocations aside
notStore == <<hvars, evars, cvars, fvars, tvars, uvars, rvars>>

\* what embed mode leaves alone
notEmbed == <<ivars, hvars, svars, cvars, fvars, tvars, uvars, rvars>>

\* what the computation of the database path leaves alone
notConfig == <<ivars, hvars, svars, evars, fvars, tvars, uvars, rvars>>

vars == <<transcript, offsets, messages, pc, off, res, tx, last,
          parsed, herr, exit,
          hfile1, hfile, hopen, hfrom, hres1, hres2, hphase,
          call, saved,
          etable, elimit, todo, ei, eres, ej, embedded, epc,
          cwd1, cwd2, db1, db2, cphase,
          xraw, xtext, xpc,
          sfile, sclock, sres, spc,
          darg, dres, dpc,
          sessions, events, uhist, uerr,
          mtable, embeddings, runs>>

\* ---------------------------------------------------------------- store

\* SQL NULL
NULL == "NULL"

\* nullStr(s)
nullStr(s) == IF s = "" THEN NULL ELSE s

\* the query without  WHERE transcript_path = ?
StoredOffsetAnyPath(table, path) ==
  IF table # {} THEN (CHOOSE r \in table : TRUE).last_offset ELSE 0

\* GetOffset(path): the last_offset of the row of path, 0 when
\* sql.ErrNoRows
StoredOffset(table, path) ==
  IF \E r \in table : r.transcript_path = path
  THEN (CHOOSE r \in table : r.transcript_path = path).last_offset
  ELSE 0

\* the upsert with  last_offset = greatest(last_offset, excluded.last_offset)
UpsertOffsetRowMax(table, path, newOffset) ==
  LET old == IF \E r \in table : r.transcript_path = path
             THEN (CHOOSE r \in table : r.transcript_path = path).last_offset
             ELSE 0
  IN {r \in table : r.transcript_path # path}
       \cup {[transcript_path |-> path,
               last_offset |-> IF old >= newOffset THEN old ELSE newOffset]}

\* the insert without the ON CONFLICT clause on a table without the
\* primary key: a second row for the path
UpsertOffsetRowInsert(table, path, newOffset) ==
  table \cup {[transcript_path |-> path, last_offset |-> newOffset]}

\* INSERT INTO transcript_offsets ... ON CONFLICT (transcript_path)
\* DO UPDATE SET last_offset = excluded.last_offset
UpsertOffsetRow(table, path, newOffset) ==
  {r \in table : r.transcript_path # path}
    \cup {[transcript_path |-> path, last_offset |-> newOffset]}

\* the row INSERT INTO messages makes of a message
MessageRow(m) ==
  [session_id |-> m.SessionID, uuid |-> nullStr(m.UUID), role |-> m.Role,
   content |-> nullStr(m.Content)]

\* an insert without the ON CONFLICT (uuid) clause
NeverConflicts(row, rows) == FALSE

\* a UNIQUE column in which NULL equals NULL
ConflictsAlsoOnNull(row, rows) ==
  \E i \in 1 .. Len(rows) : rows[i].uuid = row.uuid

\* ON CONFLICT (uuid): the UNIQUE column already holds the value; NULL
\* never conflicts
Conflicts(row, rows) ==
  /\ row.uuid # NULL
  /\ \E i \in 1 .. Len(rows) : rows[i].uuid = row.uuid

RECURSIVE InsertAllUpdating(_, _)
\* the insert with  ON CONFLICT (uuid) DO UPDATE: the row that holds the
\* identifier is overwritten
InsertAllUpdating(rows, new) ==
  IF new = <<>> THEN rows
  ELSE InsertAllUpdating(
         IF Conflicts(Head(new), rows)
         THEN [i \in 1 .. Len(rows) |->
                 IF rows[i].uuid = Head(new).uuid THEN Head(new) ELSE rows[i]]
         ELSE Append(rows, Head(new)),
         Tail(new))

RECURSIVE InsertAll(_, _)
\* the rows of a transaction written to the table, ON CONFLICT DO NOTHING
InsertAll(rows, new) ==
  IF new = <<>> THEN rows
  ELSE InsertAll(IF Conflicts(Head(new), rows) THEN rows ELSE Append(rows, Head(new)),
                 Tail(new))

\* a model.Session
Session(id, dir, transcriptPath, createdAt) ==
  [ID |-> id, CWD |-> dir, TranscriptPath |-> transcriptPath,
   CreatedAt |-> createdAt]

\* the row VALUES (?, ?, ?, ?) of a session
SessionRow(session) ==
  [session_id |-> session.ID, cwd |-> session.CWD,
   transcript_path |-> nullStr(session.TranscriptPath),
   created_at |-> session.CreatedAt]

\* the statement with  DO UPDATE SET  of every column
UpsertSessionRowReplacing(table, session) ==
  {r \in table : r.session_id # session.ID} \cup {SessionRow(session)}

\* INSERT INTO sessions ... ON CONFLICT (session_id) DO UPDATE SET
\* transcript_path = excluded.transcript_path
UpsertSessionRow(table, session) ==
  IF \E r \in table : r.session_id = session.ID
  THEN {IF r.session_id = session.ID
        THEN [r EXCEPT !.transcript_path = SessionRow(session).transcript_path]
        ELSE r : r \in table}
  ELSE table \cup {SessionRow(session)}

\* the working directory of the sessions of the ingest system
ProjectDir == "/proj"

\* no transaction: rows are the pending inserts, next the index of the
\* message the loop is at, offset the pending last_offset (-1: none)
NoTx == [rows |-> <<>>, next |-> 1, offset |-> -1]

\* ------------------------------------------------------ calls of the store

\* the largest newOffset a caller of the store passes
MaxOffset == 2
\* rows of the messages table in the store-level checks
MaxStoreRows == 3

OtherPath == "/other.jsonl"

Paths == {Path, OtherPath}

\* a model.Message
Msg(sessionID, uuid, role, content) ==
  [SessionID |-> sessionID, UUID |-> uuid, Role |-> role, Content |-> content]

\* the batches a caller passes: a turn, the same identifier with another
\* session, role and text, that one after another turn, a turn without
\* identifier, two turns, and no turn
StoreBatches ==
  {<<>>,
   <<Msg("sess-1", "u1", "user", "first")>>,
   <<Msg("sess-2", "u1", "assistant", "changed")>>,
   <<Msg("sess-1", "u2", "assistant", "answer"),
     Msg("sess-2", "u1", "assistant", "changed")>>,
   <<Msg("sess-1", "u1", "user", "first"),
     Msg("sess-1", "u2", "assistant", "answer")>>,
   <<Msg("sess-1", "", "user", "anon")>>}

\* no call yet.  prev is the offset stored for path before the call, ok
\* whether the database executes every statement of it
NoCall ==
  [op |-> "none", path |-> "", msgs |-> <<>>, n |-> 0, prev |-> 0,
   ok |-> TRUE, err |-> FALSE, ret |-> 0]

IdleStore ==
  /\ call = NoCall
  /\ saved = [path \in Paths |-> -1]
  /\ uhist = <<>>
  /\ uerr = FALSE

\* ------------------------------------------------------------ embed mode

\* (nil, err) of Embed
NoVectors == [err |-> TRUE, vectors |-> <<>>]

\* embed mode has not run: no message has an embedding
IdleEmbed ==
  /\ etable = <<>>
  /\ elimit = 0
  /\ todo = <<>>
  /\ ei = 0
  /\ eres = NoVectors
  /\ ej = 0
  /\ embedded = {}
  /\ epc = "start"

\* ---------------------------------------------------------- database path

\* no path computed
IdleConfig ==
  /\ cwd1 = <<>>
  /\ cwd2 = <<>>
  /\ db1 = <<>>
  /\ db2 = <<>>
  /\ cphase = "init"

\* ------------------------------------------------------- single functions

\* a payload without content: len(raw) == 0
NoContent == [shape |-> "absent", bytes |-> "", s |-> "", blocks |-> <<>>]

\* extractText has not been called
IdleExtract ==
  /\ xraw = NoContent
  /\ xtext = ""
  /\ xpc = "init"

\* Harvest has not been called on a file with timestamps
IdleStamp ==
  /\ sfile = [lines |-> <<>>, missing |-> 0, stamps |-> <<>>]
  /\ sclock = 0
  /\ sres = NoResult
  /\ spc = "init"

\* int64 zero, as eight bytes, the lowest first
Zero64 == <<0, 0, 0, 0, 0, 0, 0, 0>>

\* nothing returned yet.  d is the time.Duration (int64 nanoseconds) of
\* parseRelativeDuration and sinceNow the int64 nanoseconds from time.Now()
\* to the instant parseTimeArg returns.
NoTime ==
  [relative |-> FALSE, d |-> Zero64, err |-> FALSE, sinceNow |-> Zero64]

\* parseTimeArg has not been called
IdleDuration ==
  /\ darg = <<>>
  /\ dres = NoTime
  /\ dpc = "init"

IdleFunctions == IdleExtract /\ IdleStamp /\ IdleDuration

\* the runs of embed mode
Runs == {1, 2}

\* the locals of a run that has not started
NoRun ==
  [pc |-> "start", messages |-> <<>>, i |-> 0, embeddings |-> NoVectors,
   j |-> 0]

\* no run of embed mode on a database without messages
IdleRuns ==
  /\ mtable = <<>>
  /\ embeddings = {}
  /\ runs = [r \in Runs |-> NoRun]

\* the state the checks of one part leave the other parts in
IdleOthers == IdleEmbed /\ IdleConfig /\ IdleFunctions /\ IdleRuns

\* --------------------------------------------- two Harvest calls on a file

RECURSIVE SeqsUpTo(_, _)
\* the sequences over S of length at most n
SeqsUpTo(S, n) ==
  IF n = 0 THEN {<<>>}
  ELSE LET shorter == SeqsUpTo(S, n - 1)
       IN shorter \cup {Append(q, x) : q \in {r \in shorter : Len(r) = n - 1}, x \in S}

\* the numbers of missing bytes an unterminated last line may have: at
\* least one byte of the line is written
MissingOf(lines) ==
  IF lines = <<>> THEN {0}
  ELSE {m \in MissingKinds : m <= lines[Len(lines)].len}

InitFiles ==
  {f \in [lines : SeqsUpTo(LineKinds, MaxInitLines), missing : MissingKinds] :
     f.missing \in MissingOf(f.lines)}

\* the starting offsets tried on a file: the start of every line, the byte
\* after it (inside the line, or its newline), and the end of the file
OffsetsOf(f) ==
  {o \in ({0, FileSize(f)}
          \cup UNION {{LineStart(f.lines, i), LineStart(f.lines, i) + 1} :
                        i \in 1 .. Len(f.lines)}) :
     0 <= o /\ o <= FileSize(f)}

\* the hook payloads, by what runHook reads of them: a Stop event of a
\* session with a transcript, one without, and another event
Payloads ==
  {[EventType |-> "Stop", TranscriptPath |-> Path],
   [EventType |-> "Stop", TranscriptPath |-> ""],
   [EventType |-> "PreToolUse", TranscriptPath |-> Path]}

NoPayload == [EventType |-> "", TranscriptPath |-> ""]

\* the steps of runHook before the session upsert that may fail
HookSteps ==
  {"read stdin", "parse payload", "create log dir", "open", "schema"}

\* the process has not exited
NoExit == [status |-> -1, stderr |-> ""]

\* an empty transcript and empty tables
EmptyDisk ==
  /\ transcript = EmptyFile
  /\ offsets = {}
  /\ messages = <<>>
  /\ last = 0
  /\ sessions = {}
  /\ events = <<>>

\* no invocation holds anything
NoLocals ==
  /\ off = [p \in Procs |-> 0]
  /\ res = [p \in Procs |-> NoResult]
  /\ tx = [p \in Procs |-> NoTx]
  /\ parsed = [p \in Procs |-> NoPayload]
  /\ herr = [p \in Procs |-> ""]
  /\ exit = [p \in Procs |-> NoExit]

\* every invocation is at the call of harvestMessages
IdleIngest ==
  /\ EmptyDisk
  /\ NoLocals
  /\ pc = [p \in Procs |-> "start"]

InitH ==
  /\ hfile1 \in InitFiles
  /\ hfile = hfile1
  /\ hopen = TRUE
  /\ hfrom \in OffsetsOf(hfile1)
  /\ hres1 = NoResult
  /\ hres2 = NoResult
  /\ hphase = "init"
  /\ IdleIngest
  /\ IdleStore
  /\ IdleOthers

\* result1, err := Harvest("sess-1", path, fromOffset)
FirstHarvest ==
  /\ hphase = "init"
  /\ \E canOpen \in BOOLEAN :
       /\ hopen' = canOpen
       /\ hres1' = Harvest("sess-1", hfile, canOpen, hfrom)
  /\ hphase' = "first"
  /\ UNCHANGED <<hfile1, hfile, hfrom, hres2>>
  /\ UNCHANGED notHarvest

\* the writer terminates the unterminated last line
CompleteLine ==
  /\ hphase = "first"
  /\ hfile.missing > 0
  /\ hfile' = [hfile EXCEPT !.missing = 0]
  /\ UNCHANGED <<hfile1, hopen, hfrom, hres1, hres2, hphase>>
  /\ UNCHANGED notHarvest

\* the writer appends one complete line
AppendLine ==
  /\ hphase = "first"
  /\ hfile.missing = 0
  /\ Len(hfile.lines) < Len(hfile1.lines) + MaxAppend
  /\ \E l \in AppendKinds : hfile' = AppendTo(hfile, l)
  /\ UNCHANGED <<hfile1, hopen, hfrom, hres1, hres2, hphase>>
  /\ UNCHANGED notHarvest

\* result2, err := Harvest("sess-1", path, result1.NewOffset)
SecondHarvest ==
  /\ hphase = "first"
  /\ ~hres1.err
  /\ hres2' = Harvest("sess-1", hfile, hopen, hres1.NewOffset)
  /\ hphase' = "second"
  /\ UNCHANGED <<hfile1, hfile, hopen, hfrom, hres1>>
  /\ UNCHANGED notHarvest

NextH ==
  \/ FirstHarvest
  \/ CompleteLine
  \/ AppendLine
  \/ SecondHarvest

SpecH == InitH /\ [][NextH]_vars

\* ------------------------------------------------------- ingest system

IdleHarvest ==
  /\ hfile1 = EmptyFile
  /\ hfile = EmptyFile
  /\ hopen = TRUE
  /\ hfrom = 0
  /\ hres1 = NoResult
  /\ hres2 = NoResult
  /\ hphase = "init"

Init == IdleIngest /\ IdleHarvest /\ IdleStore /\ IdleOthers

\* the writer of the transcript appends one complete line
AppendTranscript ==
  /\ Len(transcript.lines) < MaxLines
  /\ \E l \in IngestKinds : transcript' = AppendTo(transcript, l)
  /\ UNCHANGED <<offsets, messages, pc, off, res, tx, last>>
  /\ UNCHANGED hookvars
  /\ UNCHANGED notIngest

\* runHook up to st.InitCoreSchema(): io.ReadAll(os.Stdin),
\* model.ParsePayload, os.MkdirAll, store.Open, st.InitCoreSchema.  failed
\* is the step that returns an error ("": none).
StartHook(p) ==
  /\ pc[p] = "idle"
  /\ Len(events) < MaxEvents
  /\ \E payload \in Payloads, failed \in HookSteps \cup {""} :
       IF failed = ""
       THEN /\ parsed' = [parsed EXCEPT ![p] = payload]
            /\ pc' = [pc EXCEPT ![p] = "session"]
            /\ UNCHANGED herr
       ELSE /\ herr' = [herr EXCEPT ![p] = failed]
            /\ pc' = [pc EXCEPT ![p] = "error"]
            /\ UNCHANGED parsed
  /\ UNCHANGED <<transcript, offsets, messages, off, res, tx, last, exit>>
  /\ UNCHANGED notIngest

\* parsed.Session of an invocation; the number of events stored stands
\* for the clock of ParsePayload
SessionOfPayload(p) ==
  [ID |-> SessionOf(p), CWD |-> ProjectDir,
   TranscriptPath |-> parsed[p].TranscriptPath, CreatedAt |-> Len(events) + 1]

\* parsed.Event of an invocation
EventOfPayload(p) ==
  [session_id |-> SessionOf(p), event_type |-> parsed[p].EventType]

\* runHook going on after a failed session upsert
UpsertSessionIgnoringError(p, ok) ==
  /\ pc[p] = "session"
  /\ IF ok
     THEN sessions' = UpsertSessionRow(sessions, SessionOfPayload(p))
     ELSE UNCHANGED sessions
  /\ pc' = [pc EXCEPT ![p] = "event"]
  /\ UNCHANGED herr
  /\ UNCHANGED <<transcript, offsets, messages, off, res, tx, last, parsed, exit>>
  /\ UNCHANGED events
  /\ UNCHANGED notHook

\* runHook: st.UpsertSession(parsed.Session)
UpsertSession(p, ok) ==
  /\ pc[p] = "session"
  /\ IF ok
     THEN /\ sessions' = UpsertSessionRow(sessions, SessionOfPayload(p))
          /\ pc' = [pc EXCEPT ![p] = "event"]
          /\ UNCHANGED herr
     ELSE /\ herr' = [herr EXCEPT ![p] = "upsert session"]
          /\ pc' = [pc EXCEPT ![p] = "error"]
          /\ UNCHANGED sessions
  /\ UNCHANGED <<transcript, offsets, messages, off, res, tx, last, parsed, exit>>
  /\ UNCHANGED events
  /\ UNCHANGED notHook

\* runHook calling harvestMessages after every event
InsertEventAlwaysHarvesting(p, ok) ==
  /\ pc[p] = "event"
  /\ IF ok
     THEN /\ events' = Append(events, EventOfPayload(p))
          /\ pc' = [pc EXCEPT ![p] = "start"]
          /\ UNCHANGED herr
     ELSE /\ herr' = [herr EXCEPT ![p] = "insert event"]
          /\ pc' = [pc EXCEPT ![p] = "error"]
          /\ UNCHANGED events
  /\ UNCHANGED <<transcript, offsets, messages, off, res, tx, last, parsed, exit>>
  /\ UNCHANGED sessions
  /\ UNCHANGED notHook

\* runHook: st.InsertEvent(parsed.Event), and the test that sends a Stop
\* event of a session with a transcript to harvestMessages
InsertEvent(p, ok) ==
  /\ pc[p] = "event"
  /\ IF ok
     THEN /\ events' = Append(events, EventOfPayload(p))
          /\ pc' = [pc EXCEPT ![p] =
                      IF parsed[p].EventType = "Stop" /\ parsed[p].TranscriptPath # ""
                      THEN "start" ELSE "returned"]
          /\ UNCHANGED herr
     ELSE /\ herr' = [herr EXCEPT ![p] = "insert event"]
          /\ pc' = [pc EXCEPT ![p] = "error"]
          /\ UNCHANGED events
  /\ UNCHANGED <<transcript, offsets, messages, off, res, tx, last, parsed, exit>>
  /\ UNCHANGED sessions
  /\ UNCHANGED notHook

\* harvestMessages: offset, err := st.GetOffset(transcriptPath)
GetOffset(p) ==
  /\ pc[p] = "start"
  /\ \E ok \in BOOLEAN :
       IF ok
       THEN /\ off' = [off EXCEPT ![p] = StoredOffset(offsets, Path)]
            /\ pc' = [pc EXCEPT ![p] = "read"]
       ELSE /\ pc' = [pc EXCEPT ![p] = "failed"]
            /\ UNCHANGED off
  /\ UNCHANGED <<transcript, offsets, messages, res, tx, last>>
  /\ UNCHANGED hookvars
  /\ UNCHANGED notIngest

\* harvestMessages: result, err := transcript.Harvest(...), and the return
\* without a commit when len(result.Messages) == 0
HarvestTranscript(p) ==
  /\ pc[p] = "read"
  /\ \E canOpen \in BOOLEAN :
       LET r == Harvest(SessionOf(p), transcript, canOpen, off[p])
       IN /\ res' = [res EXCEPT ![p] = r]
          /\ pc' = [pc EXCEPT ![p] =
                      IF r.err THEN "failed"
                      ELSE IF Len(r.Messages) = 0 THEN "skipped"
                      ELSE "save"]
  /\ UNCHANGED <<transcript, offsets, messages, off, tx, last>>
  /\ UNCHANGED hookvars
  /\ UNCHANGED notIngest

\* SaveHarvestedMessages: s.db.Begin() and tx.Prepare(...)
Begin(p) ==
  /\ pc[p] = "save"
  /\ \E ok \in BOOLEAN :
       pc' = [pc EXCEPT ![p] = IF ok THEN "insert" ELSE "aborted"]
  /\ tx' = [tx EXCEPT ![p] = NoTx]
  /\ UNCHANGED <<transcript, offsets, messages, off, res, last>>
  /\ UNCHANGED hookvars
  /\ UNCHANGED notIngest

\* the insert prepared on s.db instead of tx: the row is written at once
InsertMessageAutocommit(p, ok) ==
  LET row == MessageRow(res[p].Messages[tx[p].next])
  IN /\ pc[p] = "insert"
     /\ tx[p].next <= Len(res[p].Messages)
     /\ IF ok
        THEN /\ messages' = InsertAll(messages, <<row>>)
             /\ tx' = [tx EXCEPT ![p] = [@ EXCEPT !.next = @ + 1]]
             /\ UNCHANGED pc
        ELSE /\ tx' = [tx EXCEPT ![p] = NoTx]
             /\ pc' = [pc EXCEPT ![p] = "aborted"]
             /\ UNCHANGED messages
     /\ UNCHANGED <<transcript, offsets, off, res, last>>
     /\ UNCHANGED hookvars
     /\ UNCHANGED notIngest

\* SaveHarvestedMessages: one stmt.Exec of the loop.  The row is pending
\* in the transaction; an error returns through the deferred tx.Rollback().
InsertMessage(p, ok) ==
  LET row == MessageRow(res[p].Messages[tx[p].next])
  IN /\ pc[p] = "insert"
     /\ tx[p].next <= Len(res[p].Messages)
     /\ IF ok
        THEN /\ tx' = [tx EXCEPT ![p] =
                         [@ EXCEPT !.rows = IF Conflicts(row, messages \o @)
                                            THEN @ ELSE Append(@, row),
                                   !.next = @ + 1]]
             /\ UNCHANGED pc
        ELSE /\ tx' = [tx EXCEPT ![p] = NoTx]
             /\ pc' = [pc EXCEPT ![p] = "aborted"]
     /\ UNCHANGED <<transcript, offsets, messages, off, res, last>>
     /\ UNCHANGED hookvars
     /\ UNCHANGED notIngest

\* the offset upsert run on s.db instead of tx: it is written at once
UpsertOffsetAutocommit(p, ok) ==
  /\ pc[p] = "insert"
  /\ tx[p].next > Len(res[p].Messages)
  /\ IF ok
     THEN /\ offsets' = UpsertOffsetRow(offsets, Path, res[p].NewOffset)
          /\ tx' = [tx EXCEPT ![p] = [@ EXCEPT !.offset = res[p].NewOffset]]
          /\ pc' = [pc EXCEPT ![p] = "commit"]
     ELSE /\ tx' = [tx EXCEPT ![p] = NoTx]
          /\ pc' = [pc EXCEPT ![p] = "aborted"]
          /\ UNCHANGED offsets
  /\ UNCHANGED <<transcript, messages, off, res, last>>
  /\ UNCHANGED hookvars
  /\ UNCHANGED notIngest

\* SaveHarvestedMessages: tx.Exec of the offset upsert
UpsertOffset(p, ok) ==
  /\ pc[p] = "insert"
  /\ tx[p].next > Len(res[p].Messages)
  /\ IF ok
     THEN /\ tx' = [tx EXCEPT ![p] = [@ EXCEPT !.offset = res[p].NewOffset]]
          /\ pc' = [pc EXCEPT ![p] = "commit"]
     ELSE /\ tx' = [tx EXCEPT ![p] = NoTx]
          /\ pc' = [pc EXCEPT ![p] = "aborted"]
  /\ UNCHANGED <<transcript, offsets, messages, off, res, last>>
  /\ UNCHANGED hookvars
  /\ UNCHANGED notIngest

\* SaveHarvestedMessages: tx.Commit().  The pending rows and the pending
\* offset become visible together, or the transaction is rolled back.
Commit(p, ok) ==
  /\ pc[p] = "commit"
  /\ IF ok
     THEN /\ messages' = InsertAll(messages, tx[p].rows)
          /\ offsets' = UpsertOffsetRow(offsets, Path, tx[p].offset)
          /\ pc' = [pc EXCEPT ![p] = "committed"]
          /\ last' = p
          /\ UNCHANGED tx
     ELSE /\ tx' = [tx EXCEPT ![p] = NoTx]
          /\ pc' = [pc EXCEPT ![p] = "aborted"]
          /\ UNCHANGED <<messages, offsets, last>>
  /\ UNCHANGED <<transcript, off, res>>
  /\ UNCHANGED hookvars
  /\ UNCHANGED notIngest

\* main with -i: the status the process exits with.  The other modes exit
\* with 1 on an error.
ExitStatusOfError(ingest, err) == IF err # "" THEN 1 ELSE 0

\* main: the status the process exits with
ExitStatus(ingest, err) == IF ingest THEN 0 ELSE IF err # "" THEN 1 ELSE 0

\* main with -i: runHook has returned; its error, if any, is written to
\* stderr (an error of harvestMessages was written by runHook) and the
\* process exits
Exit(p) ==
  /\ pc[p] \in {"error", "returned", "failed", "skipped", "aborted", "committed"}
  /\ exit' = [exit EXCEPT ![p] =
               [status |-> ExitStatus(TRUE, herr[p]),
                stderr |-> IF herr[p] # "" THEN herr[p]
                           ELSE IF pc[p] \in {"failed", "aborted"} THEN "harvest"
                           ELSE ""]]
  /\ pc' = [pc EXCEPT ![p] = "exited"]
  /\ off' = [off EXCEPT ![p] = 0]
  /\ res' = [res EXCEPT ![p] = NoResult]
  /\ tx' = [tx EXCEPT ![p] = NoTx]
  /\ parsed' = [parsed EXCEPT ![p] = NoPayload]
  /\ herr' = [herr EXCEPT ![p] = ""]
  /\ UNCHANGED <<transcript, offsets, messages, last>>
  /\ UNCHANGED notIngest

\* harvestMessages has returned to runHook; the next Stop event calls it
\* again (the steps of runHook around it do not touch the transcript, the
\* messages or the offsets)
Return(p) ==
  /\ pc[p] \in {"failed", "skipped", "aborted", "committed"}
  /\ pc' = [pc EXCEPT ![p] = "start"]
  /\ off' = [off EXCEPT ![p] = 0]
  /\ res' = [res EXCEPT ![p] = NoResult]
  /\ tx' = [tx EXCEPT ![p] = NoTx]
  /\ UNCHANGED <<transcript, offsets, messages, last>>
  /\ UNCHANGED hookvars
  /\ UNCHANGED notIngest

\* the caller has read the exit status; its next hook event starts
\* another process
Restart(p) ==
  /\ pc[p] = "exited"
  /\ pc' = [pc EXCEPT ![p] = "idle"]
  /\ exit' = [exit EXCEPT ![p] = NoExit]
  /\ UNCHANGED <<transcript, offsets, messages, off, res, tx, last, parsed, herr>>
  /\ UNCHANGED notIngest

Next ==
  \/ AppendTranscript
  \/ \E p \in Procs : GetOffset(p)
  \/ \E p \in Procs : HarvestTranscript(p)
  \/ \E p \in Procs : Begin(p)
  \/ \E p \in Procs, ok \in BOOLEAN : InsertMessage(p, ok)
  \/ \E p \in Procs, ok \in BOOLEAN : UpsertOffset(p, ok)
  \/ \E p \in Procs, ok \in BOOLEAN : Commit(p, ok)
  \/ \E p \in Procs : Return(p)

Spec == Init /\ [][Next]_vars

\* ------------------------------------------- ingest runs one after another

\* no process runs; the first hook event has not come
InitSerial ==
  /\ EmptyDisk
  /\ NoLocals
  /\ pc = [p \in Procs |-> "idle"]
  /\ IdleHarvest
  /\ IdleStore
  /\ IdleOthers

\* the runs do not overlap: one process at a time stands for all of them
SerialProcs == {1}

\* a hook event comes when no other process is running
StartHookAlone(p) ==
  /\ \A q \in Procs \ {p} : pc[q] \in {"idle", "exited"}
  /\ StartHook(p)

\* every run of clog -i from its start to its exit, the runs not
\* overlapping
NextSerial ==
  \/ AppendTranscript
  \/ \E p \in SerialProcs : StartHookAlone(p)
  \/ \E p \in SerialProcs, ok \in BOOLEAN : UpsertSession(p, ok)
  \/ \E p \in SerialProcs, ok \in BOOLEAN : InsertEvent(p, ok)
  \/ \E p \in SerialProcs : GetOffset(p)
  \/ \E p \in SerialProcs : HarvestTranscript(p)
  \/ \E p \in SerialProcs : Begin(p)
  \/ \E p \in SerialProcs, ok \in BOOLEAN : InsertMessage(p, ok)
  \/ \E p \in SerialProcs, ok \in BOOLEAN : UpsertOffset(p, ok)
  \/ \E p \in SerialProcs, ok \in BOOLEAN : Commit(p, ok)
  \/ \E p \in SerialProcs : Exit(p)
  \/ \E p \in SerialProcs : Restart(p)

SpecSerial == InitSerial /\ [][NextSerial]_vars

\* ------------------------------- ingest of a transcript written in parts

\* the writer appends one complete line to a file that ends with a newline
AppendWhole ==
  /\ transcript.missing = 0
  /\ AppendTranscript

\* the writer's write returns after a part of a line: its newline, or
\* more, is not in the file yet
WritePart ==
  /\ transcript.missing = 0
  /\ Len(transcript.lines) < MaxLines
  /\ \E l \in IngestKinds, m \in MissingKinds \ {0} :
       /\ m <= l.len
       /\ transcript' = [lines |-> Append(transcript.lines, l), missing |-> m]
  /\ UNCHANGED <<offsets, messages, pc, off, res, tx, last>>
  /\ UNCHANGED hookvars
  /\ UNCHANGED notIngest

\* the writer writes the rest of the line and its newline
WriteRest ==
  /\ transcript.missing > 0
  /\ transcript' = [transcript EXCEPT !.missing = 0]
  /\ UNCHANGED <<offsets, messages, pc, off, res, tx, last>>
  /\ UNCHANGED hookvars
  /\ UNCHANGED notIngest

\* a step of harvestMessages in a process that has called it
IngestStep(p) ==
  \/ GetOffset(p)
  \/ HarvestTranscript(p)
  \/ Begin(p)
  \/ \E ok \in BOOLEAN : InsertMessage(p, ok)
  \/ \E ok \in BOOLEAN : UpsertOffset(p, ok)
  \/ \E ok \in BOOLEAN : Commit(p, ok)

\* the Stop events of a session ingested one after another while the
\* transcript is being written
NextParts ==
  \/ AppendWhole
  \/ WritePart
  \/ WriteRest
  \/ \E p \in SerialProcs : GetOffset(p)
  \/ \E p \in SerialProcs : HarvestTranscript(p)
  \/ \E p \in SerialProcs : Begin(p)
  \/ \E p \in SerialProcs, ok \in BOOLEAN : InsertMessage(p, ok)
  \/ \E p \in SerialProcs, ok \in BOOLEAN : UpsertOffset(p, ok)
  \/ \E p \in SerialProcs, ok \in BOOLEAN : Commit(p, ok)
  \/ \E p \in SerialProcs : Return(p)

SpecParts == Init /\ [][NextParts]_vars

\* harvestMessages runs to its return: it is synchronous, and the file
\* reads and the database calls return
FairSpecParts == SpecParts /\ \A p \in SerialProcs : WF_vars(IngestStep(p))

\* ------------------------------------------------------ calls of the store

InitStore == IdleIngest /\ IdleHarvest /\ IdleStore /\ IdleOthers

RECURSIVE RowsFor(_)
\* the rows the loop of SaveHarvestedMessages inserts, in order
RowsFor(msgs) ==
  IF msgs = <<>> THEN <<>> ELSE <<MessageRow(Head(msgs))>> \o RowsFor(Tail(msgs))

\* uuid VARCHAR UNIQUE: two rows hold one identifier
UniqueViolated(rows) ==
  \E i, j \in 1 .. Len(rows) :
    i # j /\ rows[i].uuid # NULL /\ rows[i].uuid = rows[j].uuid

\* err := st.SaveHarvestedMessages(msgs, path, newOffset): the transaction
\* as a whole.  When a statement fails the deferred rollback leaves both
\* tables as they were.
SaveHarvestedMessages(msgs, path, newOffset, ok) ==
  LET rows == InsertAll(messages, RowsFor(msgs))
      err == ~ok \/ UniqueViolated(rows)
  IN /\ Len(messages) + Len(msgs) <= MaxStoreRows
     /\ call' = [op |-> "Save", path |-> path, msgs |-> msgs, n |-> newOffset,
                 prev |-> StoredOffset(offsets, path), ok |-> ok, err |-> err,
                 ret |-> 0]
     /\ IF err
        THEN UNCHANGED <<messages, offsets, saved>>
        ELSE /\ messages' = rows
             /\ offsets' = UpsertOffsetRow(offsets, path, newOffset)
             /\ saved' = [saved EXCEPT ![path] = newOffset]
     /\ UNCHANGED <<transcript, pc, off, res, tx, last>>
     /\ UNCHANGED hookvars
     /\ UNCHANGED notStore

\* offset, err := st.GetOffset(path)
StoreGetOffset(path, ok) ==
  /\ call' = [op |-> "GetOffset", path |-> path, msgs |-> <<>>, n |-> 0,
              prev |-> StoredOffset(offsets, path), ok |-> ok, err |-> ~ok,
              ret |-> IF ok THEN StoredOffset(offsets, path) ELSE 0]
  /\ UNCHANGED saved
  /\ UNCHANGED ivars
  /\ UNCHANGED notStore

NextStore ==
  \/ \E msgs \in StoreBatches, path \in Paths, n \in 0 .. MaxOffset, ok \in BOOLEAN :
       SaveHarvestedMessages(msgs, path, n, ok)
  \/ \E path \in Paths, ok \in BOOLEAN : StoreGetOffset(path, ok)

SpecStore == InitStore /\ [][NextStore]_vars

\* ------------------------------------------------------------ embed mode

\* messages with content in the table
MaxMessages == 3
\* items in "data" of a response of the embeddings API
MaxData == 3

\* const embeddingBatchSize
embeddingBatchSize == 64

Min(a, b) == IF a <= b THEN a ELSE b

\* The responses of the embeddings API: sent is whether client.Do and
\* io.ReadAll succeed, json whether the body unmarshals, data the number of
\* items of "data".
Responses ==
  {[sent |-> FALSE, status |-> 0, json |-> FALSE, data |-> 0],
   [sent |-> TRUE, status |-> 500, json |-> TRUE, data |-> 0],
   [sent |-> TRUE, status |-> 200, json |-> FALSE, data |-> 0]}
    \cup {[sent |-> TRUE, status |-> 200, json |-> TRUE, data |-> k] :
            k \in 0 .. MaxData}

\* HTTPEmbedder.Embed(texts), r the response to the request: one vector
\* per item of result.Data, item i standing for its Embedding
Embed(texts, r) ==
  IF ~r.sent THEN NoVectors
  ELSE IF r.status # 200 THEN NoVectors
  ELSE IF ~r.json THEN NoVectors
  ELSE [err |-> FALSE, vectors |-> [i \in 1 .. r.data |-> i]]

InitEmbed ==
  /\ etable \in {[k \in 1 .. n |-> k] : n \in 0 .. MaxMessages}
  /\ elimit \in 1 .. MaxMessages
  /\ todo = <<>>
  /\ ei = 0
  /\ eres = NoVectors
  /\ ej = 0
  /\ embedded = {}
  /\ epc = "start"
  /\ IdleIngest
  /\ IdleHarvest
  /\ IdleStore
  /\ IdleConfig
  /\ IdleFunctions
  /\ IdleRuns

\* runEmbed: messages, err := st.UnembeddedMessages(limit), and the return
\* when there is none
UnembeddedMessages(ok) ==
  /\ epc = "start"
  /\ IF ok
     THEN LET un == SelectSeq(etable, LAMBDA id : id \notin embedded)
              msgs == SubSeq(un, 1, Min(elimit, Len(un)))
          IN /\ todo' = msgs
             /\ epc' = IF Len(msgs) = 0 THEN "done" ELSE "batch"
     ELSE /\ epc' = "error"
          /\ UNCHANGED todo
  /\ ei' = 0
  /\ UNCHANGED <<etable, elimit, eres, ej, embedded>>
  /\ UNCHANGED notEmbed

\* runEmbed: batch := messages[i:end]
Batch == SubSeq(todo, ei + 1, Min(ei + embeddingBatchSize, Len(todo)))

\* runEmbed: embeddings, err := emb.Embed(texts)
EmbedBatch ==
  /\ epc = "batch"
  /\ \E r \in Responses :
       /\ eres' = Embed(Batch, r)
       /\ epc' = IF eres'.err THEN "error" ELSE "save"
  /\ ej' = 0
  /\ UNCHANGED <<etable, elimit, todo, ei, embedded>>
  /\ UNCHANGED notEmbed

\* runEmbed: st.SaveEmbedding(m.ID, embeddings[j]) for message j of the
\* batch; the index expression panics when j is out of range
SaveEmbedding(ok) ==
  /\ epc = "save"
  /\ ej < Len(Batch)
  /\ IF ej >= Len(eres.vectors)
     THEN /\ epc' = "panic"
          /\ UNCHANGED <<ej, embedded>>
     ELSE /\ embedded' = IF ok THEN embedded \cup {Batch[ej + 1]} ELSE embedded
          /\ ej' = ej + 1
          /\ UNCHANGED epc
  /\ UNCHANGED <<etable, elimit, todo, ei, eres>>
  /\ UNCHANGED notEmbed

\* runEmbed: the batch is done, i += embeddingBatchSize
EndBatch ==
  /\ epc = "save"
  /\ ej = Len(Batch)
  /\ ei' = ei + embeddingBatchSize
  /\ epc' = IF ei' < Len(todo) THEN "batch" ELSE "done"
  /\ UNCHANGED <<etable, elimit, todo, eres, ej, embedded>>
  /\ UNCHANGED notEmbed

\* the process has ended; clog -e is run again
RunAgain ==
  /\ epc \in {"done", "error", "panic"}
  /\ epc' = "start"
  /\ todo' = <<>>
  /\ ei' = 0
  /\ eres' = NoVectors
  /\ ej' = 0
  /\ UNCHANGED <<etable, elimit, embedded>>
  /\ UNCHANGED notEmbed

NextEmbed ==
  \/ \E ok \in BOOLEAN : UnembeddedMessages(ok)
  \/ EmbedBatch
  \/ \E ok \in BOOLEAN : SaveEmbedding(ok)
  \/ EndBatch
  \/ RunAgain

SpecEmbed == InitEmbed /\ [][NextEmbed]_vars

\* ---------------------------------------------------------- database path

\* characters of a working directory
MaxCwdLen == 5

\* a string is the sequence of its characters
Chars == {"/", "_", "a"}

\* strings.TrimPrefix(s, prefix)
TrimPrefix(s, prefix) ==
  IF Len(s) >= Len(prefix) /\ SubSeq(s, 1, Len(prefix)) = prefix
  THEN SubSeq(s, Len(prefix) + 1, Len(s))
  ELSE s

RECURSIVE ReplaceAll(_, _, _)
\* strings.ReplaceAll(s, old, new) for a separator old of one character
ReplaceAll(s, old, new) ==
  IF s = <<>> THEN <<>>
  ELSE (IF Head(s) = old THEN new ELSE <<Head(s)>>) \o ReplaceAll(Tail(s), old, new)

\* Config.LogBase
LogBase == <<"/", "l">>

\* Config.ProjectSlug(cwd)
ProjectSlug(cwd) == ReplaceAll(TrimPrefix(cwd, <<"/">>), "/", <<"_", "_">>)

\* filepath.Join(a, b) of a clean path a and an element b without
\* separator and dot: an empty element is ignored
Join(a, b) == IF b = <<>> THEN a ELSE a \o <<"/">> \o b

\* Config.LogDir(cwd)
LogDir(cwd) == Join(LogBase, ProjectSlug(cwd))

\* Config.DBPath(cwd); the file name is written as one character
DBPath(cwd) == Join(LogDir(cwd), <<"events.duckdb">>)

\* a working directory: an absolute path without empty element and
\* without trailing separator
IsCwd(s) ==
  /\ Len(s) >= 1
  /\ s[1] = "/"
  /\ Len(s) > 1 => s[Len(s)] # "/"
  /\ \A i \in 1 .. Len(s) - 1 : ~(s[i] = "/" /\ s[i + 1] = "/")

Cwds == {s \in SeqsUpTo(Chars, MaxCwdLen) : IsCwd(s)}

InitConfig ==
  /\ cwd1 \in Cwds
  /\ cwd2 \in Cwds
  /\ db1 = <<>>
  /\ db2 = <<>>
  /\ cphase = "init"
  /\ IdleIngest
  /\ IdleHarvest
  /\ IdleStore
  /\ IdleEmbed
  /\ IdleFunctions
  /\ IdleRuns

\* runHook in two projects: dbPath := cfg.DBPath(parsed.Session.CWD)
ComputeDBPaths ==
  /\ cphase = "init"
  /\ db1' = DBPath(cwd1)
  /\ db2' = DBPath(cwd2)
  /\ cphase' = "done"
  /\ UNCHANGED <<cwd1, cwd2>>
  /\ UNCHANGED notConfig

NextConfig == ComputeDBPaths

SpecConfig == InitConfig /\ [][NextConfig]_vars

\* ------------------------------------------------------------ extractText

\* the longest content array
MaxBlocks == 3

\* content blocks, each with its bytes and with what json.Unmarshal makes of
\* it in struct{Type, Text string}: ok is FALSE when it returns an error
TextBlock(t) ==
  [bytes |-> "{\"type\":\"text\",\"text\":\"" \o t \o "\"}",
   ok |-> TRUE, type |-> "text", text |-> t]

ToolUseBlock ==
  [bytes |-> "{\"type\":\"tool_use\",\"id\":\"tu-1\"}",
   ok |-> TRUE, type |-> "tool_use", text |-> ""]

\* a block of another type that carries a text
ThinkingBlock ==
  [bytes |-> "{\"type\":\"thinking\",\"text\":\"hm\"}",
   ok |-> TRUE, type |-> "thinking", text |-> "hm"]

\* an element that is no object: Unmarshal returns an error
NumberBlock == [bytes |-> "1", ok |-> FALSE, type |-> "", text |-> ""]

BlockKinds ==
  {TextBlock("a"), TextBlock("b"), TextBlock(""), ToolUseBlock,
   ThinkingBlock, NumberBlock}

\* the bytes of the elements, separated by commas
RECURSIVE ElementBytes(_)
ElementBytes(blocks) ==
  IF blocks = <<>> THEN ""
  ELSE IF Len(blocks) = 1 THEN blocks[1].bytes
  ELSE blocks[1].bytes \o "," \o ElementBytes(Tail(blocks))

\* the contents of a payload
StringContent(str) ==
  [shape |-> "string", bytes |-> "\"" \o str \o "\"", s |-> str,
   blocks |-> <<>>]

ArrayContent(bs) ==
  [shape |-> "array", bytes |-> "[" \o ElementBytes(bs) \o "]", s |-> "",
   blocks |-> bs]

NullContent == [shape |-> "null", bytes |-> "null", s |-> "", blocks |-> <<>>]

NumberContent == [shape |-> "number", bytes |-> "5", s |-> "", blocks |-> <<>>]

ObjectContent ==
  [shape |-> "object", bytes |-> "{\"a\":1}", s |-> "", blocks |-> <<>>]

InvalidContent ==
  [shape |-> "invalid", bytes |-> "not valid json", s |-> "", blocks |-> <<>>]

Contents ==
  {NoContent, NullContent, NumberContent, ObjectContent, InvalidContent}
    \cup {StringContent(str) : str \in {"", "hello world"}}
    \cup {ArrayContent(bs) : bs \in SeqsUpTo(BlockKinds, MaxBlocks)}

\* json.Unmarshal(raw, &s) with var s string: null leaves s empty and is no
\* error
UnmarshalString(raw) ==
  IF raw.shape = "string" THEN [err |-> FALSE, s |-> raw.s]
  ELSE IF raw.shape = "null" THEN [err |-> FALSE, s |-> ""]
  ELSE [err |-> TRUE, s |-> ""]

\* json.Unmarshal(raw, &blocks) with var blocks []json.RawMessage
UnmarshalBlocks(raw) ==
  IF raw.shape = "array" THEN [err |-> FALSE, blocks |-> raw.blocks]
  ELSE IF raw.shape = "null" THEN [err |-> FALSE, blocks |-> <<>>]
  ELSE [err |-> TRUE, blocks |-> <<>>]

\* the loop of extractText, keeping empty texts
RECURSIVE PartsWithEmpty(_)
PartsWithEmpty(blocks) ==
  IF blocks = <<>> THEN <<>>
  ELSE IF ~blocks[1].ok THEN PartsWithEmpty(Tail(blocks))
  ELSE IF blocks[1].type = "text"
    THEN <<blocks[1].text>> \o PartsWithEmpty(Tail(blocks))
  ELSE PartsWithEmpty(Tail(blocks))

\* the loop of extractText over the blocks: parts
RECURSIVE Parts(_)
Parts(blocks) ==
  IF blocks = <<>> THEN <<>>
  ELSE IF ~blocks[1].ok THEN Parts(Tail(blocks))
  ELSE IF blocks[1].type = "text" /\ blocks[1].text # ""
    THEN <<blocks[1].text>> \o Parts(Tail(blocks))
  ELSE Parts(Tail(blocks))

\* strings.Join(elems, sep)
RECURSIVE StringsJoin(_, _)
StringsJoin(elems, sep) ==
  IF elems = <<>> THEN ""
  ELSE IF Len(elems) = 1 THEN elems[1]
  ELSE elems[1] \o sep \o StringsJoin(Tail(elems), sep)

\* extractText that does not skip the empty texts
extractTextKeepingEmpty(raw) ==
  IF Len(raw.bytes) = 0 THEN ""
  ELSE IF ~UnmarshalString(raw).err THEN UnmarshalString(raw).s
  ELSE IF UnmarshalBlocks(raw).err THEN raw.bytes
  ELSE StringsJoin(PartsWithEmpty(UnmarshalBlocks(raw).blocks), "\n")

\* extractText(raw)
extractText(raw) ==
  IF Len(raw.bytes) = 0 THEN ""
  ELSE IF ~UnmarshalString(raw).err THEN UnmarshalString(raw).s
  ELSE IF UnmarshalBlocks(raw).err THEN raw.bytes
  ELSE StringsJoin(Parts(UnmarshalBlocks(raw).blocks), "\n")

notExtract == <<ivars, hvars, svars, evars, cvars, tsvars, dvars, tvars, uvars, rvars>>

InitExtract ==
  /\ xraw \in Contents
  /\ xtext = ""
  /\ xpc = "init"
  /\ IdleIngest
  /\ IdleHarvest
  /\ IdleStore
  /\ IdleEmbed
  /\ IdleConfig
  /\ IdleStamp
  /\ IdleDuration
  /\ IdleRuns

\* Content: extractText(tl.Message.Content)
ExtractText ==
  /\ xpc = "init"
  /\ xtext' = extractText(xraw)
  /\ xpc' = "done"
  /\ UNCHANGED xraw
  /\ UNCHANGED notExtract

NextExtract == ExtractText

SpecExtract == InitExtract /\ [][NextExtract]_vars

\* ------------------------------------------------------- parseTimestamp

\* lines of the file of a Harvest call with timestamps
MaxStampLines == 3

\* the "timestamp" fields of the records: missing, no timestamp, an instant
\* in UTC, the same instant in another zone, and a time without zone
RawStamps ==
  {"", "not-a-timestamp", "2024-06-15T14:30:00Z",
   "2024-06-15T16:30:00+02:00", "2024-06-15T14:30:00"}

\* time.Parse(time.RFC3339Nano, raw); t is the instant in seconds since
\* 1970-01-01T00:00:00Z
ParseRFC3339Nano(raw) ==
  IF raw \in {"2024-06-15T14:30:00Z", "2024-06-15T16:30:00+02:00"}
  THEN [err |-> FALSE, t |-> 1718461800]
  ELSE [err |-> TRUE, t |-> 0]

\* parseTimestamp(raw, fallback)
parseTimestamp(raw, fallback) ==
  IF raw = "" THEN fallback
  ELSE IF ~ParseRFC3339Nano(raw).err THEN ParseRFC3339Nano(raw).t
  ELSE fallback

\* the wall clock at the start of a call: 2026-01-01T00:00:00Z or a day
\* later; it is one second later at every line the scan reaches
Clocks == {1767225600, 1767312000}

\* the message of the scan loop with its Timestamp
StampedMessage(sessionID, f, t, fallback) ==
  [SessionID |-> sessionID, UUID |-> Unmarshal(f, t).UUID,
   Role |-> Unmarshal(f, t).Role, Content |-> Unmarshal(f, t).Text,
   Timestamp |-> parseTimestamp(f.stamps[t.line], fallback)]

RECURSIVE ScanStampedReadingClock(_, _, _, _, _)
\* the scan loop reading the clock at every record
ScanStampedReadingClock(sessionID, f, toks, k, now) ==
  IF k > Len(toks) THEN <<>>
  ELSE (IF Retained(f, toks[k])
        THEN <<StampedMessage(sessionID, f, toks[k], now + k)>>
        ELSE <<>>)
       \o ScanStampedReadingClock(sessionID, f, toks, k + 1, now)

RECURSIVE ScanStamped(_, _, _, _, _)
\* the scan loop: ts := parseTimestamp(tl.Timestamp, now)
ScanStamped(sessionID, f, toks, k, now) ==
  IF k > Len(toks) THEN <<>>
  ELSE (IF Retained(f, toks[k])
        THEN <<StampedMessage(sessionID, f, toks[k], now)>>
        ELSE <<>>)
       \o ScanStamped(sessionID, f, toks, k + 1, now)

\* Harvest with the Timestamp of the messages; clock is time.Now() at the
\* start of the call
HarvestAt(sessionID, f, canOpen, fromOffset, clock) ==
  LET pos == IF fromOffset > 0 THEN fromOffset ELSE 0
      toks == Tokens(f, pos)
      now == clock
  IN IF ~canOpen THEN NoResult
     ELSE IF FirstTooLong(toks, 1) # 0 THEN NoResult
     ELSE [err |-> FALSE,
           Messages |-> ScanStamped(sessionID, f, toks, 1, now),
           NewOffset |-> Max(pos, FileSize(f))]

\* the records of the files with timestamps: turns and a record that is
\* skipped
StampKinds == {UserLine, AsstLine, SystemLine}

notStamp == <<ivars, hvars, svars, evars, cvars, xvars, dvars, tvars, uvars, rvars>>

InitStamp ==
  /\ \E lines \in SeqsUpTo(StampKinds, MaxStampLines) :
       \E stamps \in [1 .. Len(lines) -> RawStamps] :
         sfile = [lines |-> lines, missing |-> 0, stamps |-> stamps]
  /\ sclock \in Clocks
  /\ sres = NoResult
  /\ spc = "init"
  /\ IdleIngest
  /\ IdleHarvest
  /\ IdleStore
  /\ IdleEmbed
  /\ IdleConfig
  /\ IdleExtract
  /\ IdleDuration
  /\ IdleRuns

\* result, err := transcript.Harvest(sessionID, transcriptPath, 0)
HarvestStamped ==
  /\ spc = "init"
  /\ sres' = HarvestAt("sess-1", sfile, TRUE, 0, sclock)
  /\ spc' = "done"
  /\ UNCHANGED <<sfile, sclock>>
  /\ UNCHANGED notStamp

NextStamp == HarvestStamped

SpecStamp == InitStamp /\ [][NextStamp]_vars

\* --------------------------------------------------------- parseTimeArg

\* An int64 is kept as its eight bytes in two's complement, the lowest
\* first, so that a product wraps as it does in the program.

\* the k lowest bytes of a natural number
RECURSIVE Bytes(_, _)
Bytes(n, k) ==
  IF k = 0 THEN <<>> ELSE <<n % 256>> \o Bytes(n \div 256, k - 1)

\* a[1] * b[k] + a[2] * b[k - 1] + ... + a[i] * b[k + 1 - i]
RECURSIVE Column(_, _, _, _)
Column(a, b, k, i) ==
  IF i = 0 THEN 0 ELSE a[i] * b[k + 1 - i] + Column(a, b, k, i - 1)

\* the bytes k .. w of the product of a and b, carry coming in
RECURSIVE MulFrom(_, _, _, _, _)
MulFrom(a, b, k, carry, w) ==
  IF k > w THEN <<>>
  ELSE LET sum == carry + Column(a, b, k, k)
       IN <<sum % 256>> \o MulFrom(a, b, k + 1, sum \div 256, w)

\* a * b of two int64: the product modulo 2^64
Mul64(a, b) == MulFrom(a, b, 1, 0, 8)

\* -a of an int64: the complement plus one, modulo 2^64
RECURSIVE NegFrom(_, _, _)
NegFrom(a, k, carry) ==
  IF k > 8 THEN <<>>
  ELSE LET sum == (255 - a[k]) + carry
       IN <<sum % 256>> \o NegFrom(a, k + 1, sum \div 256)

Neg64(a) == NegFrom(a, 1, 1)

\* the sign of an int64
Negative64(a) == a[8] >= 128

Positive64(a) == ~Negative64(a) /\ a # Zero64

\* time.Second, time.Minute and time.Hour in nanoseconds
Second == Bytes(1000000000, 8)

Minute == Mul64(Bytes(60, 8), Second)

Hour == Mul64(Bytes(60, 8), Minute)

\* the characters of the arguments
Digits == <<"0", "1", "2", "3", "4", "5", "6", "7", "8", "9">>

DigitValue(c) == CHOOSE v \in 0 .. 9 : Digits[v + 1] = c

IsDigit(c) == \E v \in 0 .. 9 : Digits[v + 1] = c

\* strings.TrimSpace
RECURSIVE TrimSpace(_)
TrimSpace(str) ==
  IF str = <<>> THEN str
  ELSE IF Head(str) = " " THEN TrimSpace(Tail(str))
  ELSE IF str[Len(str)] = " " THEN TrimSpace(SubSeq(str, 1, Len(str) - 1))
  ELSE str

\* the value of a sequence of digits
RECURSIVE Decimal(_)
Decimal(ds) ==
  IF ds = <<>> THEN 0
  ELSE 10 * Decimal(SubSeq(ds, 1, Len(ds) - 1)) + DigitValue(ds[Len(ds)])

\* strconv.Atoi of at most nine digits with an optional sign
Atoi(str) ==
  LET signed == str # <<>> /\ Head(str) \in {"+", "-"}
      ds == IF signed THEN Tail(str) ELSE str
  IN IF ds = <<>> \/ \E i \in 1 .. Len(ds) : ~IsDigit(ds[i])
     THEN [err |-> TRUE, n |-> 0]
     ELSE [err |-> FALSE,
           n |-> IF signed /\ Head(str) = "-" THEN -Decimal(ds) ELSE Decimal(ds)]

\* the duration of n units: time.Duration(n) * unit
UnitDuration(n, suffix) ==
  CASE suffix = "m" -> Mul64(Bytes(n, 8), Minute)
    [] suffix = "h" -> Mul64(Bytes(n, 8), Hour)
    [] suffix = "d" -> Mul64(Mul64(Bytes(n, 8), Bytes(24, 8)), Hour)
    [] suffix = "w" ->
         Mul64(Mul64(Mul64(Bytes(n, 8), Bytes(7, 8)), Bytes(24, 8)), Hour)

\* parseRelativeDuration(s)
parseRelativeDuration(str) ==
  IF Len(str) < 2 THEN [ok |-> FALSE, d |-> Zero64]
  ELSE LET suffix == str[Len(str)]
           numStr == TrimSpace(SubSeq(str, 1, Len(str) - 1))
           a == Atoi(numStr)
       IN IF a.err \/ a.n <= 0 THEN [ok |-> FALSE, d |-> Zero64]
          ELSE IF suffix \in {"m", "h", "d", "w"}
            THEN [ok |-> TRUE, d |-> UnitDuration(a.n, suffix)]
          ELSE [ok |-> FALSE, d |-> Zero64]

\* parseTimeArg(s).  time.Now().Add(-d) is the instant -d nanoseconds from
\* time.Now(); none of the arguments is a date in one of the three
\* layouts tried next, so the other arguments are errors.
parseTimeArg(str) ==
  LET r == parseRelativeDuration(str)
  IN IF r.ok
     THEN [relative |-> TRUE, d |-> r.d, err |-> FALSE, sinceNow |-> Neg64(r.d)]
     ELSE [relative |-> FALSE, d |-> Zero64, err |-> TRUE, sinceNow |-> Zero64]

\* the numbers of the arguments: those of the tests, the largest number
\* of each unit whose duration fits an int64, and the next one
Numbers ==
  {<<>>, <<"0">>, <<"1">>, <<"2">>, <<"7">>, <<"3", "0">>, <<"-", "3">>,
   <<"+", "5">>, <<" ", "5">>, <<"a", "b", "c">>,
   <<"1", "5", "2", "5", "0">>, <<"1", "5", "2", "5", "1">>,
   <<"1", "0", "6", "7", "5", "1">>, <<"1", "0", "6", "7", "5", "2">>,
   <<"2", "5", "6", "2", "0", "4", "7">>, <<"2", "5", "6", "2", "0", "4", "8">>,
   <<"1", "5", "3", "7", "2", "2", "8", "6", "7">>,
   <<"1", "5", "3", "7", "2", "2", "8", "6", "8">>,
   <<"3", "0", "7", "4", "4", "5", "7", "3", "5">>}

Suffixes == {"m", "h", "d", "w", "x", "5"}

Args == {num \o <<suffix>> : num \in Numbers, suffix \in Suffixes}

notDuration == <<ivars, hvars, svars, evars, cvars, xvars, tsvars, tvars, uvars, rvars>>

InitDuration ==
  /\ darg \in Args
  /\ dres = NoTime
  /\ dpc = "init"
  /\ IdleIngest
  /\ IdleHarvest
  /\ IdleStore
  /\ IdleEmbed
  /\ IdleConfig
  /\ IdleExtract
  /\ IdleStamp
  /\ IdleRuns

\* t, err := parseTimeArg(s)
ParseTimeArg ==
  /\ dpc = "init"
  /\ dres' = parseTimeArg(darg)
  /\ dpc' = "done"
  /\ UNCHANGED darg
  /\ UNCHANGED notDuration

NextDuration == ParseTimeArg

SpecDuration == InitDuration /\ [][NextDuration]_vars

\* ------------------------------------------------------- calls of UpsertSession

\* successful calls of UpsertSession
MaxUpserts == 3

SessionIDs == {"sess-1", "sess-2"}

Dirs == {"/tmp/project", "/tmp"}

InitSessions == IdleIngest /\ IdleHarvest /\ IdleStore /\ IdleOthers

\* err := st.UpsertSession(session); the session is created at the time of
\* the call, the number of calls made before standing for the clock
StoreUpsertSession(id, dir, transcriptPath, ok) ==
  /\ Len(uhist) < MaxUpserts
  /\ LET session == Session(id, dir, transcriptPath, Len(uhist) + 1)
     IN IF ok
        THEN /\ sessions' = UpsertSessionRow(sessions, session)
             /\ uhist' = Append(uhist, session)
             /\ uerr' = FALSE
        ELSE /\ uerr' = TRUE
             /\ UNCHANGED <<sessions, uhist>>
  /\ UNCHANGED events
  /\ UNCHANGED ivars
  /\ UNCHANGED <<hvars, svars, evars, cvars, fvars, rvars>>

NextSessions ==
  \E id \in SessionIDs, dir \in Dirs, transcriptPath \in Paths \cup {""},
     ok \in BOOLEAN :
    StoreUpsertSession(id, dir, transcriptPath, ok)

SpecSessions == InitSessions /\ [][NextSessions]_vars

\* ------------------------------------------------- runs of embed mode

\* rows of the messages table of the runs of embed mode
MaxEmbedRows == 3

\* embeddingBatchSize scaled down, so that a run has several batches
BatchSize == 2

\* the content column of the messages
EmbedContents == {NULL, "", "hello"}

\* SELECT ... FROM messages m LEFT JOIN message_embeddings e ON m.id =
\* e.message_id WHERE e.message_id IS NULL AND m.content IS NOT NULL AND
\* m.content != '' ORDER BY m.id LIMIT ?: the ids selected
Unembedded(table, rows, limit) ==
  LET ids == SelectSeq([id \in 1 .. Len(table) |-> id],
                       LAMBDA id : /\ ~\E e \in rows : e.message_id = id
                                   /\ table[id] # NULL
                                   /\ table[id] # "")
  IN SubSeq(ids, 1, Min(limit, Len(ids)))

\* the statement with  ON CONFLICT (message_id) DO UPDATE
SaveEmbeddingRowReplacing(rows, id, embedding) ==
  {e \in rows : e.message_id # id}
    \cup {[message_id |-> id, embedding |-> embedding]}

\* INSERT INTO message_embeddings (message_id, embedding) VALUES (?, ...)
\* ON CONFLICT DO NOTHING, message_id being the primary key
SaveEmbeddingRow(rows, id, embedding) ==
  IF \E e \in rows : e.message_id = id THEN rows
  ELSE rows \cup {[message_id |-> id, embedding |-> embedding]}

\* runEmbed: batch := messages[i:end]
BatchOf(run) ==
  SubSeq(run.messages, run.i + 1, Min(run.i + BatchSize, Len(run.messages)))

InitRuns ==
  /\ mtable \in SeqsUpTo(EmbedContents, MaxEmbedRows)
  /\ embeddings = {}
  /\ runs = [r \in Runs |-> NoRun]
  /\ IdleIngest
  /\ IdleHarvest
  /\ IdleStore
  /\ IdleEmbed
  /\ IdleConfig
  /\ IdleFunctions

notRuns == <<ivars, hvars, svars, evars, cvars, fvars, tvars, uvars>>

\* runEmbed(limit): messages, err := st.UnembeddedMessages(limit), and the
\* return when there is none
RunUnembeddedMessages(r, limit, ok) ==
  /\ runs[r].pc = "start"
  /\ runs' = [runs EXCEPT ![r] =
       IF ok
       THEN LET msgs == Unembedded(mtable, embeddings, limit)
            IN [NoRun EXCEPT !.messages = msgs,
                             !.pc = IF Len(msgs) = 0 THEN "done" ELSE "batch"]
       ELSE [NoRun EXCEPT !.pc = "error"]]
  /\ UNCHANGED <<mtable, embeddings>>
  /\ UNCHANGED notRuns

\* runEmbed: embeddings, err := emb.Embed(texts), and the return of its
\* error
RunEmbedBatch(r) ==
  /\ runs[r].pc = "batch"
  /\ \E resp \in Responses :
       LET result == Embed(BatchOf(runs[r]), resp)
       IN runs' = [runs EXCEPT ![r].embeddings = result, ![r].j = 0,
                               ![r].pc = IF result.err THEN "error" ELSE "save"]
  /\ UNCHANGED <<mtable, embeddings>>
  /\ UNCHANGED notRuns

\* runEmbed: st.SaveEmbedding(m.ID, embeddings[j]) for message j of the
\* batch, its error only printed; the index expression panics when j is
\* out of range
RunSaveEmbedding(r, ok) ==
  /\ runs[r].pc = "save"
  /\ runs[r].j < Len(BatchOf(runs[r]))
  /\ IF runs[r].j >= Len(runs[r].embeddings.vectors)
     THEN /\ runs' = [runs EXCEPT ![r].pc = "panic"]
          /\ UNCHANGED embeddings
     ELSE /\ embeddings' =
               IF ok
               THEN SaveEmbeddingRow(embeddings, BatchOf(runs[r])[runs[r].j + 1],
                                     runs[r].embeddings.vectors[runs[r].j + 1])
               ELSE embeddings
          /\ runs' = [runs EXCEPT ![r].j = @ + 1]
  /\ UNCHANGED mtable
  /\ UNCHANGED notRuns

\* runEmbed: the batch is done, i += embeddingBatchSize
RunEndBatch(r) ==
  /\ runs[r].pc = "save"
  /\ runs[r].j = Len(BatchOf(runs[r]))
  /\ runs' = [runs EXCEPT ![r].i = @ + BatchSize,
                          ![r].pc = IF runs[r].i + BatchSize < Len(runs[r].messages)
                                    THEN "batch" ELSE "done"]
  /\ UNCHANGED <<mtable, embeddings>>
  /\ UNCHANGED notRuns

\* the process has ended; clog -e is run again
RunStartAgain(r) ==
  /\ runs[r].pc \in {"done", "error", "panic"}
  /\ runs' = [runs EXCEPT ![r] = NoRun]
  /\ UNCHANGED <<mtable, embeddings>>
  /\ UNCHANGED notRuns

\* a step of a run that is under way
RunStep(r) ==
  \/ RunEmbedBatch(r)
  \/ \E ok \in BOOLEAN : RunSaveEmbedding(r, ok)
  \/ RunEndBatch(r)

NextRuns ==
  \/ \E r \in Runs, limit \in 1 .. MaxEmbedRows, ok \in BOOLEAN :
       RunUnembeddedMessages(r, limit, ok)
  \/ \E r \in Runs : RunEmbedBatch(r)
  \/ \E r \in Runs, ok \in BOOLEAN : RunSaveEmbedding(r, ok)
  \/ \E r \in Runs : RunEndBatch(r)
  \/ \E r \in Runs : RunStartAgain(r)

SpecRuns == InitRuns /\ [][NextRuns]_vars

\* a process that runs keeps running: the calls of the database and of
\* the embeddings API return (the HTTP client has a timeout)
FairSpecRuns == SpecRuns /\ \A r \in Runs : WF_vars(RunStep(r))

\* ------------------------------------------------------------- properties

\* a line that is a turn: a record with a payload of role user or assistant
Qualifies(l) ==
  l.json /\ l.len > 0 /\ l.hasMsg /\ l.role \in {"user", "assistant"}

\* the table holds the row of a message: one with its identifier, or, for
\* a message without identifier, an equal row
Persisted(row, rows) ==
  \E i \in 1 .. Len(rows) :
    /\ rows[i].uuid = row.uuid
    /\ row.uuid = NULL => rows[i] = row

\* the table holds a row for the turn of line l
LinePersisted(l, rows) ==
  \E i \in 1 .. Len(rows) :
    /\ rows[i].uuid = nullStr(l.uuid)
    /\ l.uuid = "" => rows[i].content = l.text

\* every turn of the transcript that lies wholly before byte o has a row
TurnsBeforePersisted(o) ==
  \A i \in 1 .. Len(transcript.lines) :
    (LineStart(transcript.lines, i + 1) <= o /\ Qualifies(transcript.lines[i]))
      => LinePersisted(transcript.lines[i], messages)

\* the rows of the table that carry identifier u
RowsOf(u) == {i \in 1 .. Len(messages) : messages[i].uuid = u}

\* the scan from byte o meets a line that does not fit the buffer
ScanFails(f, o) ==
  \E i \in 1 .. Len(f.lines) :
    LET start == LineStart(f.lines, i)
    IN /\ start + f.lines[i].len >= o
       /\ f.lines[i].len - (Max(o, start) - start) >= MaxTokenSize

\* C1: SaveHarvestedMessages is all-or-nothing.  A call that returns an
\* error leaves the messages table and the stored offset as they were; a
\* call that succeeds makes its offset and all its turns visible in one
\* step; and the tables change in no other step, so the offset of a call
\* is never stored without its turns, nor turns without the offset.
C1_AllOrNothing ==
  [][/\ \A p \in Procs :
          (pc[p] \in {"save", "insert", "commit"} /\ pc'[p] = "aborted")
            => (messages' = messages /\ offsets' = offsets)
     /\ \A p \in Procs :
          (pc[p] = "commit" /\ pc'[p] = "committed")
            => /\ StoredOffset(offsets', Path) = res[p].NewOffset
               /\ \A k \in 1 .. Len(res[p].Messages) :
                    Persisted(MessageRow(res[p].Messages[k]), messages')
     /\ (messages' # messages \/ offsets' # offsets)
          => \E p \in Procs : pc[p] = "commit" /\ pc'[p] = "committed"]_vars

\* a call failed after inserting its turns, another one committed
C1_Witness ==
  \E p, q \in Procs :
    /\ pc[p] = "aborted"
    /\ pc[q] = "committed"
    /\ Len(messages) > 0
    /\ StoredOffset(offsets, Path) = res[q].NewOffset

\* C2: the stored offset never advances past an unpersisted turn: every
\* line wholly before the stored offset that qualifies as a turn has a row
\* in the messages table.
C2_OffsetNeverPastUnpersistedTurn ==
  TurnsBeforePersisted(StoredOffset(offsets, Path))

\* the offset is past a turn while a commit of the other invocation failed
C2_Witness ==
  /\ StoredOffset(offsets, Path) > 0
  /\ \E p \in Procs : pc[p] = "aborted"
  /\ \E i \in 1 .. Len(transcript.lines) :
       /\ Qualifies(transcript.lines[i])
       /\ LineStart(transcript.lines, i + 1) <= StoredOffset(offsets, Path)

\* C4: the messages table holds at most one row per turn identifier.
C4_OneRowPerIdentifier ==
  \A i, j \in 1 .. Len(messages) :
    (i # j /\ messages[i].uuid # NULL) => messages[i].uuid # messages[j].uuid

\* both invocations harvested the same line from offset 0 and both
\* committed; the second commit inserted nothing and reported no error
C4_Witness ==
  \E p, q \in Procs :
    /\ p # q
    /\ pc[p] = "committed" /\ pc[q] = "committed"
    /\ off[p] = 0 /\ off[q] = 0
    /\ last = p
    /\ tx[p].rows = <<>>
    /\ \E k \in 1 .. Len(res[p].Messages) :
         /\ res[p].Messages[k].UUID # ""
         /\ \E n \in 1 .. Len(res[q].Messages) :
              res[q].Messages[n].UUID = res[p].Messages[k].UUID
         /\ Cardinality(RowsOf(res[p].Messages[k].UUID)) = 1

\* C7: two invocations that read the same stored offset and both commit
\* leave one row per harvested identifier, the offset of the one that
\* committed last, and no turn before that offset without a row.
C7_RaceIsBenign ==
  \A p, q \in Procs :
    (/\ p # q
     /\ pc[p] = "committed" /\ pc[q] = "committed"
     /\ off[p] = off[q]
     /\ last = p)
      => /\ StoredOffset(offsets, Path) = res[p].NewOffset
         /\ \A r \in {p, q} : \A k \in 1 .. Len(res[r].Messages) :
              res[r].Messages[k].UUID # ""
                => Cardinality(RowsOf(res[r].Messages[k].UUID)) = 1
         /\ TurnsBeforePersisted(StoredOffset(offsets, Path))

\* the invocation that saw less of the file committed last: the stored
\* offset went back
C7_Witness ==
  \E p, q \in Procs :
    /\ p # q
    /\ pc[p] = "committed" /\ pc[q] = "committed"
    /\ off[p] = off[q]
    /\ last = p
    /\ res[p].NewOffset < res[q].NewOffset
    /\ StoredOffset(offsets, Path) = res[p].NewOffset

\* C8: a failed Harvest produces nothing and changes nothing.  When the
\* scan meets an oversized line, or the file cannot be opened, Harvest
\* returns the error and no turns, and the invocation ends without opening
\* a transaction: the tables are as they were.
C8_FailedHarvestChangesNothing ==
  [][\A p \in Procs :
       /\ (pc[p] = "read" /\ pc'[p] # "read" /\ ScanFails(transcript, off[p]))
            => pc'[p] = "failed"
       /\ (pc[p] = "read" /\ pc'[p] = "failed")
            => /\ res'[p].err /\ res'[p].Messages = <<>>
               /\ tx'[p] = NoTx
               /\ messages' = messages /\ offsets' = offsets
       /\ pc[p] = "failed" => (pc'[p] \in {"failed", "start"} /\ tx'[p] = NoTx)]_vars

\* a harvest failed on an oversized line that follows a turn
C8_Witness ==
  \E p \in Procs :
    /\ pc[p] = "failed"
    /\ ScanFails(transcript, off[p])
    /\ \E i \in 1 .. Len(transcript.lines) :
         /\ Qualifies(transcript.lines[i])
         /\ transcript.lines[i].len < MaxTokenSize
         /\ LineStart(transcript.lines, i) >= off[p]
    /\ messages = <<>>

\* C9: skipping the commit of a harvest without turns is equivalent to
\* committing the empty sequence: after the skip the stored offset is the
\* newOffset of the harvest and the messages table is unchanged.
C9_SkipEqualsEmptyCommit ==
  [][\A p \in Procs :
       (pc[p] = "read" /\ pc'[p] = "skipped")
         => /\ messages' = InsertAll(messages, <<>>)
            /\ StoredOffset(offsets', Path) = res'[p].NewOffset]_vars

RECURSIVE TurnsOf(_, _)
\* the turns of the qualifying lines of a sequence of complete lines
TurnsOf(sessionID, lines) ==
  IF lines = <<>> THEN <<>>
  ELSE (IF Qualifies(Head(lines))
        THEN <<[SessionID |-> sessionID, UUID |-> Head(lines).uuid,
                Role |-> Head(lines).role, Content |-> Head(lines).text]>>
        ELSE <<>>) \o TurnsOf(sessionID, Tail(lines))

\* the lines appended since the first call, when nothing else was written
Appended == SubSeq(hfile.lines, Len(hfile1.lines) + 1, Len(hfile.lines))

\* C3: a trailing partial line is never consumed.  When the file ends with
\* an unterminated line, Harvest makes no turn of its bytes and returns a
\* newOffset not past its start, and once the line is completed a Harvest
\* from that newOffset yields its turn.
C3_PartialLineNotConsumed ==
  LET n == Len(hfile1.lines)
      start == LineStart(hfile1.lines, n)
      before == [lines |-> SubSeq(hfile1.lines, 1, n - 1), missing |-> 0]
  IN (hphase # "init" /\ ~hres1.err /\ hfile1.missing > 0 /\ hfrom <= start)
       => /\ hres1.NewOffset <= start
          /\ Len(hres1.Messages) = Len(Harvest("sess-1", before, TRUE, hfrom).Messages)
          /\ (/\ hphase = "second"
              /\ ~hres2.err
              /\ hfile = [hfile1 EXCEPT !.missing = 0]
              /\ Qualifies(hfile1.lines[n]))
               => hres2.Messages = TurnsOf("sess-1", <<hfile1.lines[n]>>)

\* C5: Harvest is idempotent through its offset.  A Harvest from the
\* newOffset of a successful Harvest of the same, unmodified file succeeds
\* with no turns and the same newOffset.
C5_HarvestIdempotent ==
  (hphase = "second" /\ hfile = hfile1)
    => /\ ~hres2.err
       /\ hres2.Messages = <<>>
       /\ hres2.NewOffset = hres1.NewOffset

\* the first call started inside the file and returned turns
C5_Witness ==
  /\ hphase = "second"
  /\ hfile = hfile1
  /\ hfrom > 0
  /\ Len(hres1.Messages) > 0
  /\ hres2.NewOffset = FileSize(hfile)

\* C6 as stated: after appends of complete lines only, the Harvest from
\* the newOffset of the first call returns exactly the turns of the
\* appended qualifying lines, in order.
C6_IncrementalExactlyOnce ==
  (hphase = "second" /\ hfile.missing = hfile1.missing)
    => /\ ~hres2.err
       /\ hres2.Messages = TurnsOf("sess-1", Appended)

\* C6 amended: the same, when no appended line reaches the maximum line
\* size.
C6_IncrementalExactlyOnceWithinLimit ==
  (/\ hphase = "second"
   /\ hfile.missing = hfile1.missing
   /\ \A k \in 1 .. Len(Appended) : Appended[k].len < MaxTokenSize)
    => /\ ~hres2.err
       /\ hres2.Messages = TurnsOf("sess-1", Appended)

\* two turns were appended after a first call that returned a turn
C6_Witness ==
  /\ hphase = "second"
  /\ hfile.missing = hfile1.missing
  /\ Len(hres1.Messages) > 0
  /\ Len(Appended) = 2
  /\ Len(hres2.Messages) = 2
  /\ hres2.Messages[1].Role # hres2.Messages[2].Role

\* C10: Harvest retains a record only if its type is "message" and its
\* role is user or assistant: every turn returned stems from such a line.
C10_OnlyMessageKindRetained ==
  hphase # "init"
    => \A k \in 1 .. Len(hres1.Messages) :
         \E i \in 1 .. Len(hfile1.lines) :
           /\ hfile1.lines[i].type = "message"
           /\ hfile1.lines[i].role \in {"user", "assistant"}
           /\ hfile1.lines[i].uuid = hres1.Messages[k].UUID
           /\ hfile1.lines[i].text = hres1.Messages[k].Content

\* C11: a persisted turn is immutable.  Every row of the messages table
\* stays where it is and as it is in every step (rows are only appended),
\* and a save whose statements all execute reports no error, also when it
\* carries a turn whose identifier is already stored with another session,
\* role or text.
C11_PersistedTurnImmutable ==
  [][/\ Len(messages') >= Len(messages)
     /\ \A i \in 1 .. Len(messages) : messages'[i] = messages[i]
     /\ (call'.op = "Save" /\ call'.ok) => ~call'.err]_vars

\* a save that carried a stored identifier with another session, role and
\* text succeeded, and the row is the one stored first
C11_Witness ==
  /\ call.op = "Save"
  /\ ~call.err
  /\ \E k \in 1 .. Len(call.msgs), i \in 1 .. Len(messages) :
       /\ call.msgs[k].UUID # ""
       /\ messages[i].uuid = call.msgs[k].UUID
       /\ messages[i].session_id # call.msgs[k].SessionID
       /\ messages[i].role # call.msgs[k].Role
       /\ messages[i].content # call.msgs[k].Content

\* C13: the offset commit is a last-write-wins upsert.  After a successful
\* SaveHarvestedMessages(_, path, n) the record of path holds exactly n,
\* also when n is smaller than the value stored before, and no path ever
\* has more than one offset record.
C13_OffsetLastWriteWins ==
  /\ (call.op = "Save" /\ ~call.err)
       => \E r \in offsets :
            r.transcript_path = call.path /\ r.last_offset = call.n
  /\ \A path \in Paths :
       Cardinality({r \in offsets : r.transcript_path = path}) <= 1

\* a successful save stored an offset smaller than the one stored before
C13_Witness ==
  /\ call.op = "Save"
  /\ ~call.err
  /\ call.n < call.prev
  /\ StoredOffset(offsets, call.path) = call.n

\* the newOffset of the last successful save of a path, 0 when there is none
LastSaved(path) == IF saved[path] = -1 THEN 0 ELSE saved[path]

\* C14: GetOffset(path) returns 0 without error for a path without a
\* successful commit and otherwise the newOffset of the most recent
\* successful SaveHarvestedMessages for that path; the offset of a path is
\* changed by commits for that path only.
C14_GetOffsetReturnsLastCommitted ==
  /\ (call.op = "GetOffset" /\ call.ok)
       => (~call.err /\ call.ret = LastSaved(call.path))
  /\ \A path \in Paths : StoredOffset(offsets, path) = LastSaved(path)

\* GetOffset returned 0 for a path never committed, after a commit of a
\* non-zero offset for the other path
C14_Witness ==
  /\ call.op = "GetOffset"
  /\ ~call.err
  /\ call.ret = 0
  /\ saved[call.path] = -1
  /\ \E path \in Paths : saved[path] > 0

\* C12: when the transcript is only appended to and the invocations do not
\* overlap, the stored offset of the transcript is never negative and no
\* step makes it smaller.
C12_OffsetMonotonicWhenSerial ==
  [][/\ \A r \in offsets' : r.last_offset >= 0
     /\ StoredOffset(offsets', Path) >= StoredOffset(offsets, Path)]_vars

\* an invocation that read a stored offset above 0 committed a larger one
C12_Witness ==
  \E p \in Procs :
    /\ pc[p] = "committed"
    /\ off[p] > 0
    /\ StoredOffset(offsets, Path) > off[p]
    /\ \A q \in Procs \ {p} : pc[q] \in {"idle", "exited"}

\* C18: ingest mode never blocks its caller.  Whenever a process started
\* with -i has exited, its exit status is 0, whichever step failed; a
\* failure shows on stderr only.
C18_IngestAlwaysExitsZero ==
  \A p \in Procs :
    /\ exit[p].status \in {-1, 0}
    /\ pc[p] = "exited" <=> exit[p].status = 0
    /\ pc[p] # "exited" => exit[p].stderr = ""

\* a process exited with 0 after harvestMessages returned an error: its
\* event is stored, no message is
C18_Witness ==
  \E p \in Procs :
    /\ pc[p] = "exited" /\ exit[p] = [status |-> 0, stderr |-> "harvest"]
    /\ events # <<>>
    /\ messages = <<>>
    /\ Len(transcript.lines) > 0

RECURSIVE ByteLength(_)
\* the bytes of a sequence of newline-terminated lines
ByteLength(lines) ==
  IF lines = <<>> THEN 0 ELSE Head(lines).len + 1 + ByteLength(Tail(lines))

\* C15: a successful Harvest always reports the new offset.  For a file
\* whose lines are all newline-terminated and a starting offset within it,
\* newOffset is the byte length of the file, skipped lines included and
\* whatever the number of turns; a zero-byte file gives no turn, offset 0
\* and no error.
C15_NewOffsetIsFileLength ==
  /\ (hphase # "init" /\ ~hres1.err /\ hfile1.missing = 0)
       => hres1.NewOffset = ByteLength(hfile1.lines)
  /\ (hphase = "second" /\ ~hres2.err /\ hfile.missing = 0)
       => hres2.NewOffset = ByteLength(hfile.lines)
  /\ (hphase # "init" /\ hopen /\ hfile1 = EmptyFile)
       => hres1 = [err |-> FALSE, Messages |-> <<>>, NewOffset |-> 0]

\* a Harvest that found no turn in two skipped lines reported the end of
\* the file
C15_Witness ==
  /\ hphase # "init"
  /\ ~hres1.err
  /\ hfile1.missing = 0
  /\ Len(hfile1.lines) = 2
  /\ hfrom = 0
  /\ hres1.Messages = <<>>
  /\ hres1.NewOffset = ByteLength(hfile1.lines)

\* a line Harvest skips: empty, not a record, a record without payload, or
\* a role that is neither user nor assistant
Skippable(l) ==
  l.len = 0 \/ ~l.json \/ ~l.hasMsg \/ l.role \notin {"user", "assistant"}

\* the file without its skippable lines
WithoutSkippable(f) ==
  [lines |-> SelectSeq(f.lines, LAMBDA l : ~Skippable(l)), missing |-> 0]

\* C16 as stated: skippable lines never cause an error and never change
\* the turns of the other lines: Harvest of a file of complete lines fails
\* only if Harvest of the file without its skippable lines fails, and
\* returns the same turns.
C16_SkippableLinesTransparent ==
  (hphase # "init" /\ hopen /\ hfrom = 0 /\ hfile1.missing = 0)
    => LET r == Harvest("sess-1", WithoutSkippable(hfile1), TRUE, 0)
       IN /\ hres1.err => r.err
          /\ hres1.Messages = r.Messages

\* C16 amended: the same, for skippable lines shorter than the maximum
\* line size.
C16_SkippableLinesTransparentWithinLimit ==
  (/\ hphase # "init" /\ hopen /\ hfrom = 0 /\ hfile1.missing = 0
   /\ \A i \in 1 .. Len(hfile1.lines) :
        Skippable(hfile1.lines[i]) => hfile1.lines[i].len < MaxTokenSize)
    => LET r == Harvest("sess-1", WithoutSkippable(hfile1), TRUE, 0)
       IN /\ hres1.err => r.err
          /\ hres1.Messages = r.Messages

\* a turn after a line that does not parse was returned without error
C16_Witness ==
  /\ hphase # "init"
  /\ hfrom = 0
  /\ hfile1.lines = <<GarbageLine, AsstLine>>
  /\ hfile1.missing = 0
  /\ ~hres1.err
  /\ Len(hres1.Messages) = 1

\* C17: Harvest returns the turns in the order of their lines: the result
\* of a Harvest of a file of complete lines from its start is the sequence
\* of the turns of its qualifying lines, first line first.
C17_TurnsInFileOrder ==
  (hphase # "init" /\ ~hres1.err /\ hfrom = 0 /\ hfile1.missing = 0)
    => hres1.Messages = TurnsOf("sess-1", hfile1.lines)

\* an assistant turn and then a user turn were returned in that order
C17_Witness ==
  /\ hphase # "init"
  /\ hfrom = 0
  /\ hfile1.lines = <<AsstLine, UserLine>>
  /\ Len(hres1.Messages) = 2
  /\ hres1.Messages[1].Role = "assistant"
  /\ hres1.Messages[2].Role = "user"

\* C19: Embed returns one embedding per input text: after Embed returned
\* without error the result has as many vectors as the batch has texts,
\* and the access embeddings[j] of runEmbed is never out of range.
C19_EmbedOnePerText ==
  /\ epc = "save" => Len(eres.vectors) = Len(Batch)
  /\ epc # "panic"

\* C20: each project has its own database: two different working
\* directories have different database paths under one Config.
C20_DBPathInjective ==
  (cphase = "done" /\ cwd1 # cwd2) => db1 # db2

\* the texts the display text is made of: those of the blocks of type text
\* with a text, in the order of the blocks
RECURSIVE DisplayTexts(_, _)
DisplayTexts(blocks, n) ==
  IF n = 0 THEN <<>>
  ELSE IF blocks[n].ok /\ blocks[n].type = "text" /\ blocks[n].text # ""
    THEN Append(DisplayTexts(blocks, n - 1), blocks[n].text)
  ELSE DisplayTexts(blocks, n - 1)

\* the texts, each but the first after one newline
RECURSIVE NewlineJoined(_, _)
NewlineJoined(texts, n) ==
  IF n = 0 THEN ""
  ELSE IF n = 1 THEN texts[1]
  ELSE NewlineJoined(texts, n - 1) \o "\n" \o texts[n]

\* C21: extractText returns the empty string for missing or empty content
\* (a JSON null included), the string itself for a plain string, for an
\* array of blocks the non-empty texts of the blocks of type text in their
\* order joined by one newline (the empty string when there is none), and
\* the raw bytes unchanged for any other content.
C21_ExtractTextByShape ==
  xpc = "done" =>
    CASE xraw.shape \in {"absent", "null"} -> xtext = ""
      [] xraw.shape = "string" -> xtext = xraw.s
      [] xraw.shape = "array" ->
           LET texts == DisplayTexts(xraw.blocks, Len(xraw.blocks))
           IN xtext = NewlineJoined(texts, Len(texts))
      [] OTHER -> xtext = xraw.bytes

\* an array with an ignored block and an empty text between two texts
C21_Witness ==
  /\ xpc = "done"
  /\ xraw = ArrayContent(<<TextBlock("a"), ToolUseBlock, TextBlock("b")>>)
  /\ xtext = "a\nb"

\* the indexes of the lines that are turns, in file order
RECURSIVE TurnLines(_, _)
TurnLines(lines, n) ==
  IF n = 0 THEN <<>>
  ELSE IF Qualifies(lines[n]) THEN Append(TurnLines(lines, n - 1), n)
  ELSE TurnLines(lines, n - 1)

\* C22: a timestamp never costs a turn or an error, and the fallback is
\* shared: Harvest returns one message per turn of the file, the message
\* of a turn whose timestamp parses carries the parsed instant, and the
\* messages of all turns whose timestamp is missing or does not parse
\* carry one and the same instant, the wall clock at the start of the call.
C22_TimestampParsedOrSharedFallback ==
  spc = "done" =>
    LET turns == TurnLines(sfile.lines, Len(sfile.lines))
    IN /\ ~sres.err
       /\ Len(sres.Messages) = Len(turns)
       /\ \A i \in 1 .. Len(turns) :
            LET raw == sfile.stamps[turns[i]]
                m == sres.Messages[i]
            IN /\ m.UUID = sfile.lines[turns[i]].uuid
               /\ IF raw # "" /\ ~ParseRFC3339Nano(raw).err
                  THEN m.Timestamp = ParseRFC3339Nano(raw).t
                  ELSE m.Timestamp = sclock

\* three turns harvested: one without timestamp, one with a timestamp that
\* does not parse, both with the clock of the start, and one with the
\* instant of its timestamp
C22_Witness ==
  /\ spc = "done"
  /\ Len(sres.Messages) = 3
  /\ sfile.stamps = <<"", "2024-06-15T16:30:00+02:00", "not-a-timestamp">>
  /\ sres.Messages[1].Timestamp = sclock
  /\ sres.Messages[3].Timestamp = sclock
  /\ sres.Messages[2].Timestamp = 1718461800

\* the argument is a positive integer followed by m, h, d or w
RelativeArg(str) ==
  /\ Len(str) >= 2
  /\ str[Len(str)] \in {"m", "h", "d", "w"}
  /\ \A i \in 1 .. Len(str) - 1 : IsDigit(str[i])
  /\ Decimal(SubSeq(str, 1, Len(str) - 1)) > 0

\* the nanoseconds of a unit, as a natural number of 16 bytes
UnitNanos(suffix) ==
  LET wide(x) == Bytes(x, 16)
      mul(a, b) == MulFrom(a, b, 1, 0, 16)
      minute == mul(wide(60), wide(1000000000))
      hour == mul(wide(60), minute)
  IN CASE suffix = "m" -> minute
       [] suffix = "h" -> hour
       [] suffix = "d" -> mul(wide(24), hour)
       [] suffix = "w" -> mul(wide(7 * 24), hour)

\* n times the unit, as a natural number of 16 bytes
Product(str) ==
  MulFrom(Bytes(Decimal(SubSeq(str, 1, Len(str) - 1)), 16),
          UnitNanos(str[Len(str)]), 1, 0, 16)

\* C23: for every argument that is a positive integer n followed by m, h,
\* d or w, parseRelativeDuration returns a positive duration equal to n
\* times the unit and parseTimeArg returns an instant that much before,
\* never after, the current time.
C23_RelativeDurationIsProduct ==
  (dpc = "done" /\ RelativeArg(darg)) =>
    /\ dres.relative
    /\ ~dres.err
    /\ Positive64(dres.d)
    /\ dres.d \o Zero64 = Product(darg)
    /\ Negative64(dres.sinceNow)
    /\ dres.sinceNow = Neg64(SubSeq(Product(darg), 1, 8))

\* the successful upserts of a session id, in order
UpsertsOf(id) == SelectSeq(uhist, LAMBDA session : session.ID = id)

\* C24: the sessions table holds one row per session id that was upserted
\* and none for the others; the cwd and created_at of the row are those of
\* the first upsert of the id, its transcript path is that of the most
\* recent one, NULL when that one had an empty path.
C24_SessionRowFirstAndLast ==
  \A id \in SessionIDs :
    LET ups == UpsertsOf(id)
        rows == {r \in sessions : r.session_id = id}
    IN IF ups = <<>> THEN rows = {}
       ELSE /\ Cardinality(rows) = 1
            /\ \A r \in rows :
                 /\ r.cwd = ups[1].CWD
                 /\ r.created_at = ups[1].CreatedAt
                 /\ r.transcript_path =
                      (IF ups[Len(ups)].TranscriptPath = "" THEN NULL
                       ELSE ups[Len(ups)].TranscriptPath)

\* a session upserted three times, from another directory and with
\* another path the second time, without path the third time: the row has
\* the directory and time of the first call and no path
C24_Witness ==
  /\ Len(UpsertsOf("sess-1")) = 3
  /\ uhist[1].CWD = "/tmp/project" /\ uhist[1].TranscriptPath = Path
  /\ uhist[2].CWD = "/tmp" /\ uhist[2].TranscriptPath = OtherPath
  /\ uhist[3].TranscriptPath = ""
  /\ sessions = {[session_id |-> "sess-1", cwd |-> "/tmp/project",
                  transcript_path |-> NULL, created_at |-> 1]}

\* the number of rows without identifier
NullRows(rows) == Cardinality({i \in 1 .. Len(rows) : rows[i].uuid = NULL})

\* the number of turns without identifier
Anonymous(msgs) == Cardinality({k \in 1 .. Len(msgs) : msgs[k].UUID = ""})

\* C28: a turn without identifier is stored with a NULL identifier and
\* never deduplicated: every committed save adds one row with NULL
\* identifier for each turn of it whose UUID is empty, whatever the table
\* holds, so that committing the same such turn k times yields k rows.
C28_TurnWithoutIdentifierNeverDeduplicated ==
  [][(call'.op = "Save" /\ ~call'.err) =>
       /\ NullRows(messages') = NullRows(messages) + Anonymous(call'.msgs)
       /\ \A i \in 1 .. Len(messages') : messages'[i].uuid # ""]_vars

\* the same turn without identifier committed three times: three equal
\* rows
C28_Witness ==
  /\ call.op = "Save"
  /\ ~call.err
  /\ call.msgs = <<Msg("sess-1", "", "user", "anon")>>
  /\ Len(messages) = 3
  /\ \A i \in 1 .. 3 :
       messages[i] = [session_id |-> "sess-1", uuid |-> NULL, role |-> "user",
                      content |-> "anon"]

\* the invocation holds the payload of an event that is not harvested
NotHarvested(p) ==
  /\ parsed[p] # NoPayload
  /\ ~(parsed[p].EventType = "Stop" /\ parsed[p].TranscriptPath # "")

\* C26: only a Stop event with a transcript path changes harvested state.
\* While an invocation handles an event of another type, or a Stop event
\* without transcript path, no step changes the messages table or a stored
\* offset and the invocation never calls harvestMessages; its session
\* upsert writes the session row and nothing else, and its event insert
\* appends exactly one row to the events table and nothing else.
C26_OnlyStopWithPathHarvests ==
  [][\A p \in SerialProcs :
       NotHarvested(p) =>
         /\ messages' = messages
         /\ offsets' = offsets
         /\ pc'[p] \in {"session", "event", "returned", "error", "exited"}
         /\ (pc[p] = "session" /\ pc'[p] = "event") =>
              /\ sessions' = UpsertSessionRow(sessions, SessionOfPayload(p))
              /\ events' = events
         /\ (pc[p] = "event" /\ pc'[p] = "returned") =>
              /\ events' = Append(events, EventOfPayload(p))
              /\ sessions' = sessions
         /\ ~(pc[p] = "session" /\ pc'[p] = "event") => sessions' = sessions
         /\ ~(pc[p] = "event" /\ pc'[p] = "returned") => events' = events]_vars

\* a PreToolUse event of a session with a transcript that has turns was
\* ingested after a Stop event without transcript path: two event rows,
\* the session row, no message and no offset
C26_Witness ==
  \E p \in SerialProcs :
    /\ pc[p] = "returned"
    /\ parsed[p] = [EventType |-> "PreToolUse", TranscriptPath |-> Path]
    /\ events = <<[session_id |-> SessionOf(p), event_type |-> "Stop"],
                  [session_id |-> SessionOf(p), event_type |-> "PreToolUse"]>>
    /\ \E r \in sessions : r.session_id = SessionOf(p) /\ r.transcript_path = Path
    /\ \E i \in 1 .. Len(transcript.lines) : Qualifies(transcript.lines[i])
    /\ messages = <<>>
    /\ offsets = {}

\* the invocation is in harvestMessages or has returned from it
InHarvest(p) ==
  pc[p] \in {"start", "read", "save", "insert", "commit", "failed",
             "skipped", "aborted", "committed"}

\* C27: the steps of one ingest are ordered session upsert, event insert,
\* harvest and commit.  A failed session upsert ends runHook: no event row,
\* no message and no offset is written after it.  A failed event insert
\* ends runHook: no message and no offset is written after it, and the
\* session row stays.  The event row is written only after the session
\* row, harvestMessages runs only after the event row of the invocation
\* is written, and no step of harvestMessages, a failed harvest or a
\* failed commit included, changes the sessions or the events table.
C27_UpsertThenEventThenHarvest ==
  [][\A p \in SerialProcs :
       /\ (pc[p] = "session" /\ pc'[p] \notin {"session", "event"}) =>
            /\ pc'[p] = "error" /\ herr'[p] = "upsert session"
            /\ sessions' = sessions
       /\ herr[p] = "upsert session" =>
            /\ pc'[p] \in {"error", "exited"}
            /\ sessions' = sessions /\ events' = events
            /\ messages' = messages /\ offsets' = offsets
       /\ (pc[p] = "event" /\ pc'[p] \notin {"event", "start", "returned"}) =>
            /\ pc'[p] = "error" /\ herr'[p] = "insert event"
            /\ events' = events
       /\ herr[p] = "insert event" =>
            /\ pc'[p] \in {"error", "exited"}
            /\ sessions' = sessions /\ events' = events
            /\ messages' = messages /\ offsets' = offsets
       /\ events' # events =>
            /\ pc[p] = "event"
            /\ \E r \in sessions :
                 /\ r.session_id = SessionOf(p)
                 /\ r.transcript_path = nullStr(parsed[p].TranscriptPath)
       /\ (InHarvest(p)' \/ messages' # messages \/ offsets' # offsets) =>
            /\ events' # <<>>
            /\ events'[Len(events')] =
                 [session_id |-> SessionOf(p), event_type |-> "Stop"]
            /\ \E r \in sessions' :
                 r.session_id = SessionOf(p) /\ r.transcript_path = Path
       /\ InHarvest(p) => (sessions' = sessions /\ events' = events)]_vars

\* the commit of an invocation failed after a harvest that found a turn:
\* the session row and the event row of the invocation are stored, no
\* message and no offset is
C27_Witness ==
  \E p \in SerialProcs :
    /\ pc[p] = "aborted"
    /\ res[p].Messages # <<>>
    /\ sessions = {[session_id |-> SessionOf(p), cwd |-> ProjectDir,
                    transcript_path |-> Path, created_at |-> 1]}
    /\ events = <<[session_id |-> SessionOf(p), event_type |-> "Stop"]>>
    /\ messages = <<>>
    /\ offsets = {}

\* a line that does not fit the buffer of the scanner lies after the
\* stored offset
Blocked ==
  \E i \in 1 .. Len(transcript.lines) :
    /\ transcript.lines[i].len >= MaxTokenSize
    /\ LineStart(transcript.lines, i) >= StoredOffset(offsets, Path)

\* an invocation holds the result of a harvest it has not committed yet
HarvestInFlight == \E p \in SerialProcs : pc[p] \in {"save", "insert", "commit"}

\* C29 as stated: once an oversized line lies after the stored offset,
\* every harvest fails, the stored offset never advances and no turn is
\* persisted any more.
C29_OversizedLineBlocks ==
  [][Blocked =>
       /\ \A p \in SerialProcs :
            (pc[p] = "read" /\ pc'[p] # "read") => pc'[p] = "failed"
       /\ StoredOffset(offsets', Path) <= StoredOffset(offsets, Path)
       /\ messages' = messages]_vars

\* C29: an oversized line blocks its transcript for good.  Once a line
\* that does not fit the scanner lies after the stored offset it stays
\* after the stored offset, every harvest that runs from then on fails,
\* and, unless an invocation still holds the result of a harvest made
\* before the line was written, no step changes the stored offset or the
\* messages table.
C29_OversizedLineBlocksLaterHarvests ==
  [][Blocked =>
       /\ Blocked'
       /\ \A p \in SerialProcs :
            (pc[p] = "read" /\ pc'[p] # "read") =>
              (pc'[p] = "failed" /\ res'[p].err)
       /\ ~HarvestInFlight =>
            (~HarvestInFlight' /\ offsets' = offsets /\ messages' = messages)]_vars

\* the second Stop event after an oversized line was written behind a
\* turn: its harvest failed as the first did, the turn is not persisted
\* and no offset is stored
C29_Witness ==
  \E p \in SerialProcs :
    /\ pc[p] = "failed"
    /\ res[p].err
    /\ transcript.lines = <<UserLine, HugeLine>>
    /\ events = <<[session_id |-> SessionOf(p), event_type |-> "Stop"],
                  [session_id |-> SessionOf(p), event_type |-> "Stop"]>>
    /\ messages = <<>>
    /\ offsets = {}

\* the run is between its query and its end
Running(r) == runs[r].pc \in {"batch", "save"}

\* the process of the run has ended
Ended(r) == runs[r].pc \in {"done", "error", "panic"}

\* the message has an embedding in the rows
HasEmbedding(rows, id) == \E e \in rows : e.message_id = id

\* C30: embedding is resumable and never duplicates.  Whatever the runs of
\* embed mode do, overlapping runs and runs ended by a failed batch
\* included: no message ever has two embeddings; a row of the embeddings
\* table is never changed or removed, so what the batches before a failed
\* batch saved is kept; the messages a run selects are messages with a
\* non-empty content and without embedding at the time of the query, in
\* the order of their ids, none of them skipped before the limit; and
\* every run that has selected its messages comes to an end.
C30_EmbedResumableNoDuplicates ==
  /\ [][/\ \A e1, e2 \in embeddings' :
             e1.message_id = e2.message_id => e1 = e2
        /\ embeddings \subseteq embeddings'
        /\ \A r \in Runs :
             (runs[r].pc = "start" /\ runs'[r].pc \in {"batch", "done"}) =>
               LET msgs == runs'[r].messages
                   unembedded == {id \in 1 .. Len(mtable) :
                              /\ mtable[id] # NULL /\ mtable[id] # ""
                              /\ ~HasEmbedding(embeddings, id)}
               IN /\ \A k \in 1 .. Len(msgs) : msgs[k] \in unembedded
                  /\ \A k \in 1 .. Len(msgs) - 1 : msgs[k] < msgs[k + 1]
                  /\ \A id \in unembedded :
                       (\A k \in 1 .. Len(msgs) : msgs[k] # id) =>
                         /\ msgs # <<>>
                         /\ id > msgs[Len(msgs)]
                  /\ (msgs = <<>>) = (runs'[r].pc = "done")]_vars
  /\ \A r \in Runs : Running(r) ~> Ended(r)

\* a run ended by the error of its second batch, after an overlapping run
\* had embedded the second message: the two embeddings of its first batch
\* are those stored, the one the other run saved first unchanged
C30_Witness ==
  /\ mtable = <<"hello", "hello", "hello">>
  /\ runs[1].pc = "error"
  /\ runs[1].i = BatchSize
  /\ runs[1].messages = <<1, 2, 3>>
  /\ runs[2].messages = <<2, 3>>
  /\ embeddings = {[message_id |-> 1, embedding |-> 1],
                   [message_id |-> 2, embedding |-> 1]}

\* no line of the transcript reaches the maximum line size
WithinLimit ==
  \A i \in 1 .. Len(transcript.lines) : transcript.lines[i].len < MaxTokenSize

\* the turns of the transcript without identifier that carry text t
AnonymousLines(t) ==
  {i \in 1 .. Len(transcript.lines) :
     /\ Qualifies(transcript.lines[i])
     /\ transcript.lines[i].uuid = ""
     /\ transcript.lines[i].text = t}

\* the rows of the table without identifier that carry text t
AnonymousRows(t) ==
  {i \in 1 .. Len(messages) : messages[i].uuid = NULL /\ messages[i].content = t}

\* every turn of the transcript has its row: the row with its identifier,
\* or, for the turns without identifier, a row each
EveryTurnPersisted ==
  \A i \in 1 .. Len(transcript.lines) :
    LET l == transcript.lines[i]
    IN Qualifies(l) =>
         IF l.uuid # "" THEN RowsOf(l.uuid) # {}
         ELSE Cardinality(AnonymousRows(l.text)) >= Cardinality(AnonymousLines(l.text))

\* an ingest ends without an error: Harvest has read the file, and the
\* commit, when there are turns to save, has succeeded
IngestSucceeds(p) ==
  /\ pc[p] \in {"read", "commit"}
  /\ pc'[p] \in {"skipped", "committed"}

\* C25: ingestion converges.  If the transcript stops growing, every line
\* of it is terminated by a newline and shorter than the maximum line size,
\* and Stop events keep being ingested without an error, then from some
\* point on every turn of the file is persisted and no ingest changes the
\* messages table or the stored offset any more.
C25_IngestionConverges ==
  (/\ <>[](transcript.missing = 0 /\ WithinLimit)
   /\ <>[][transcript' = transcript]_vars
   /\ []<><<\E p \in SerialProcs : IngestSucceeds(p)>>_vars)
    => /\ <>[]EveryTurnPersisted
       /\ <>[][messages' = messages /\ offsets' = offsets]_vars


====
